---- MODULE Spec2Model ----
(***************************************************************************)
(* Flight-data subsystem of the radio-telemetry tracking drone:            *)
(*   - StateManager   (state/state_manager.py): GPS / ping-finder state,   *)
(*                     timestamp-ordered GPS history, current fix          *)
(*   - PingFinderModule._callback (ping_finder/ping_finder_module.py)      *)
(*   - OnlinePingFinderManager (ping_finder/online_ping_finder_manager.py) *)
(*   - GPSModule run()/stop() (gps/gps_module.py)                          *)
(* Optional values (float | None) are sets: {} is None, {v} is the value v.*)
(***************************************************************************)
EXTENDS Integers, Sequences, FiniteSets, TLC

VARIABLES
    \* ---- StateManager fields
    gps_state,            \* StateManager._gps_state (the enum's value)
    ping_finder_state,    \* StateManager._ping_finder_state
    gps_data_history,     \* StateManager._gps_data_history, a sequence of fixes
    current_gps_data,     \* StateManager._current_gps_data
    \* ---- PingFinderModule
    drone_comms,          \* PingFinderModule._drone_comms: {} (offline) or {"link"}
    \* ---- observer of the calls made on the StateManager and of the ping callback
    last_call,            \* the most recent operation: its argument, its outcome and
                          \* what it wrote to the log sink, the link and the estimator
    last_update,          \* the argument of the most recent update_gps_data call
    module_call,          \* the most recent start / stop / reconfigure call on a
                          \* PingFinderModule: the coordinator before it and the
                          \* statements it executed
    \* ---- OnlinePingFinderManager
    ping_finder_module,   \* OnlinePingFinderManager._ping_finder_module: {} or {module}
    pending_actions,      \* OnlinePingFinderManager._pending_actions
    next_packet_id,       \* packet id the link returns from the next send call
    responses,            \* responses sent so far: packet id -> [type, success]
    handler,              \* position of the request-handling thread
    engine_started,       \* the engine handle owned by the module has been started
    monitor_alive,        \* the monitoring thread of the module is alive
    ack_log,              \* per packet id: what the acknowledgment callbacks did (observer)
    \* ---- GPSModule
    running,              \* GPSModule._running (threading.Event)
    error_count,          \* GPSModule._error_count
    loop_pc,              \* position of the thread inside run()
    loop_fix,             \* the batch's fix held by the loop thread
    stop_pc,              \* position of the thread inside stop()
    stop_returned,        \* stop() has returned and run() was not called since (observer)
    last_read,            \* what the most recent transport read of the current run()
                          \* call returned, "no read" before its first read (observer)
    \* ---- GPSModule: the parsing pipeline
    buffer,               \* GPSModule._buffer: the text read and not yet split off
    last_valid_position,  \* GPSModule._last_valid_position: {} or {<<lat, lon>>}
    last_valid_altitude,  \* GPSModule._last_valid_altitude
    last_valid_time,      \* GPSModule._last_valid_time
    clock,                \* the value time.time() returned last on the acquisition thread
    batch,                \* the most recent _process_buffer call: the lines it split
                          \* off, the fix it built and what became of it (observer)
    \* ---- StateManager, the variant driven by triggers
    gps_state_machine,    \* StateManager.gps_state_machine.state
    ping_finder_state_machine,  \* StateManager.ping_finder_state_machine.state
    \* ---- StateManager: the lock and the threads inside its operations
    lock,                 \* StateManager._lock: {} (free) or {the thread holding it}
    update_pc,            \* position of the writer thread inside update_gps_data
    update_data,          \* the argument of the update_gps_data call in progress
    reader,               \* the reader thread: its position inside a get_* call, the
                          \* call, and whether the call began during an update (observer)
    \* ---- GPSModule: a restart
    earlier_pc,           \* position of the thread of an earlier run() call
    \* ---- PingFinderModule: start() and stop() statement by statement
    ctl,                  \* per control thread: the call it makes and its position in it
    stop_event,           \* PingFinderModule._stop_event
    thread,               \* PingFinderModule._thread: {} or {a monitoring thread}
    monitors,             \* per monitoring thread: its position inside _run
    engine_starts         \* number of calls of the engine's start (observer)

smVars == <<gps_state, ping_finder_state, gps_data_history, current_gps_data>>
olVars == <<ping_finder_module, pending_actions, next_packet_id, responses, handler,
            engine_started, monitor_alive, ack_log>>
plVars == <<buffer, last_valid_position, last_valid_altitude, last_valid_time, clock, batch>>
gpsVars == <<running, error_count, loop_pc, loop_fix, stop_pc, stop_returned, last_read,
             plVars>>
obVars == <<last_call, last_update, module_call>>
tmVars == <<gps_state_machine, ping_finder_state_machine>>
\* the variables only the actions of the later sections write
lkVars == <<lock, update_pc, update_data, reader>>
coVars == <<ctl, stop_event, thread, monitors, engine_starts>>
restVars == <<drone_comms, tmVars, lkVars, earlier_pc, coVars>>
\* what the operations on the machines leave alone
tmFrame == <<smVars, drone_comms, lkVars, earlier_pc, coVars, last_update, module_call,
            olVars, gpsVars>>
\* what the operations under the lock leave alone
lkFrame == <<gps_state, ping_finder_state, drone_comms, tmVars, earlier_pc, coVars,
            module_call, olVars, gpsVars>>
\* what the statements of start(), stop() and _run leave alone
coFrame == <<gps_state, gps_data_history, current_gps_data, drone_comms, tmVars, lkVars,
            earlier_pc, obVars, gpsVars, ping_finder_module, pending_actions,
            next_packet_id, responses, handler, monitor_alive, ack_log>>
vars == <<smVars, restVars, obVars, olVars, gpsVars>>

-----------------------------------------------------------------------------
(* Bounds of the model *)

\* the code's MAX_HISTORY is 1000 (state_manager.py:14); the cap is scaled down
MAX_HISTORY == 3
\* timestamps of the fixes are 0..MaxTime
MaxTime == 2
\* number of packets the online manager sends in a behaviour
MaxPackets == 3
\* consecutive failed reads the transport delivers at most
MaxFailures == 6

None == {}
Some(v) == {v}

Timestamps == 0..MaxTime
QueryTimes == (0 - 1)..(MaxTime + 1)
\* the EPSG code given to GPSModule at construction (tests/test_gps_module.py:8)
TEST_EPSG_CODE == 32611

Abs(x) == IF x < 0 THEN 0 - x ELSE x
Last(s) == s[Len(s)]
Range(s) == {s[i] : i \in 1..Len(s)}

-----------------------------------------------------------------------------
(* GPSData *)

\* GPSData(timestamp=t): every optional field None, is_valid False
GPSData(t) ==
    [timestamp |-> t, latitude |-> None, longitude |-> None, altitude |-> None,
     heading |-> None, easting |-> None, northing |-> None, epsg_code |-> None,
     satellite_count |-> None, hdop |-> None, fix_quality |-> None,
     is_valid |-> FALSE]

\* a fix with a position: latitude/longitude and the projected coordinates
PositionFix(t, p) ==
    [GPSData(t) EXCEPT !.latitude = Some(p), !.longitude = Some(0 - p),
                       !.altitude = Some(10 * p), !.heading = Some(p),
                       !.easting = Some(100 + p), !.northing = Some(200 + p),
                       !.epsg_code = Some(TEST_EPSG_CODE)]

\* a fix from a batch with a GGA sentence only: altitude, no position
AltitudeFix(t) == [GPSData(t) EXCEPT !.altitude = Some(5)]

\* the fixes passed to update_gps_data
FixInputs == {PositionFix(t, t + 1) : t \in Timestamps} \cup
             {AltitudeFix(t) : t \in Timestamps}

-----------------------------------------------------------------------------
(* bisect on the history list of (timestamp, data) tuples *)

\* (x.timestamp, x) < (e.timestamp, e) cannot be decided: equal timestamps and
\* data that differ, GPSData defines == but no ordering
Incomparable(x, e) == x.timestamp = e.timestamp /\ x # e

\* (x.timestamp, x) < (e.timestamp, e) when it can be decided
TupleLess(x, e) == x.timestamp < e.timestamp

\* bisect.insort's search (bisect_right) for x in a[lo..hi), 0-based; the
\* comparison it makes may raise TypeError
RECURSIVE bisect_right(_, _, _, _)
bisect_right(a, x, lo, hi) ==
    IF lo >= hi THEN [raised |-> FALSE, index |-> lo]
    ELSE LET mid == (lo + hi) \div 2 IN
         IF Incomparable(x, a[mid + 1]) THEN [raised |-> TRUE, index |-> mid]
         ELSE IF TupleLess(x, a[mid + 1]) THEN bisect_right(a, x, lo, mid)
         ELSE bisect_right(a, x, mid + 1, hi)

\* bisect.bisect_left(timestamps, t) on the list of the entries' timestamps
RECURSIVE bisect_left(_, _, _, _)
bisect_left(a, t, lo, hi) ==
    IF lo >= hi THEN lo
    ELSE LET mid == (lo + hi) \div 2 IN
         IF a[mid + 1].timestamp < t THEN bisect_left(a, t, mid + 1, hi)
         ELSE bisect_left(a, t, lo, mid)

\* list.insert(i, x), i 0-based
ListInsert(a, i, x) == SubSeq(a, 1, i) \o <<x>> \o SubSeq(a, i + 1, Len(a))

-----------------------------------------------------------------------------
(* StateManager *)

\* the observer's record of an operation: its name, its argument (the time asked
\* for, or the trigger name), the value
\* returned, whether it raised, and the records logged, the messages sent and the
\* pings fed to the estimator while it ran
Call(op, time, result, raised, logged, sent, fed) ==
    [op |-> op, time |-> time, result |-> result, raised |-> raised,
     logged |-> logged, sent |-> sent, fed |-> fed]

\* a history kept in arrival order: list.append in place of bisect.insort
insort_append(a, i, data) == Append(a, data)

\* the history after bisect.insort(history, (data.timestamp, data)) at index i
insort(a, i, data) == ListInsert(a, i, data)

\* an eviction at the wrong end: history.pop() in place of history.pop(0)
evict_newest(a) == IF Len(a) > MAX_HISTORY THEN SubSeq(a, 1, Len(a) - 1) ELSE a

\* if len(history) > MAX_HISTORY: history.pop(0)
evict(a) == IF Len(a) > MAX_HISTORY THEN Tail(a) ELSE a

\* the body of StateManager.update_gps_data(data) under the lock. The comparison
\* of two tuples with equal timestamps and different fixes raises TypeError inside
\* insort: the lock is released and nothing is written.
store_gps_data(data) ==
    LET r == bisect_right(gps_data_history, data, 0, Len(gps_data_history)) IN
    /\ IF r.raised
       THEN UNCHANGED <<gps_data_history, current_gps_data>>
       ELSE /\ gps_data_history' = evict(insort(gps_data_history, r.index, data))
            /\ current_gps_data' = data
    /\ last_call' = Call("update_gps_data", None, None, r.raised, <<>>, <<>>, <<>>)
    /\ last_update' = Some(data)

\* StateManager.update_gps_data(data), called by a writer of fixes
update_gps_data(data) ==
    /\ store_gps_data(data)
    /\ UNCHANGED <<gps_state, ping_finder_state, restVars, olVars, gpsVars, module_call>>

\* a lookup whose tie goes to the later entry: < in place of <=
closest_to_strict(history, timestamp) ==
    IF Len(history) = 0 THEN None
    ELSE LET index == bisect_left(history, timestamp, 0, Len(history)) IN
         IF index = 0 THEN Some(history[1])
         ELSE IF index = Len(history) THEN Some(history[Len(history)])
         ELSE LET before == history[index]
                  after == history[index + 1] IN
              IF Abs(before.timestamp - timestamp) < Abs(after.timestamp - timestamp)
              THEN Some(before)
              ELSE Some(after)

\* the value StateManager.get_gps_data_closest_to(timestamp) returns
closest_to(history, timestamp) ==
    IF Len(history) = 0 THEN None
    ELSE LET index == bisect_left(history, timestamp, 0, Len(history)) IN
         IF index = 0 THEN Some(history[1])
         ELSE IF index = Len(history) THEN Some(history[Len(history)])
         ELSE LET before == history[index]
                  after == history[index + 1] IN
              IF Abs(before.timestamp - timestamp) <= Abs(after.timestamp - timestamp)
              THEN Some(before)
              ELSE Some(after)

\* StateManager.get_gps_data_closest_to(timestamp)
get_gps_data_closest_to(timestamp) ==
    /\ last_call' = Call("get_gps_data_closest_to", Some(timestamp),
                         closest_to(gps_data_history, timestamp), FALSE, <<>>, <<>>, <<>>)
    /\ UNCHANGED <<smVars, restVars, last_update, olVars, gpsVars, module_call>>

\* StateManager.get_current_gps_data()
get_current_gps_data ==
    /\ last_call' = Call("get_current_gps_data", None, Some(current_gps_data), FALSE,
                         <<>>, <<>>, <<>>)
    /\ UNCHANGED <<smVars, restVars, last_update, olVars, gpsVars, module_call>>

\* StateManager.set_gps_state(state) / get_gps_state()
GPSStates == {"Uncreated", "Idle", "Initializing", "Running", "Error"}

\* StateManager.set_ping_finder_state(state) / get_ping_finder_state()
PingFinderStates == {"Uncreated", "Idle", "Initializing", "Running", "Error"}

\* a setter that logs a change at every call
state_change_always(subsystem, old_state, state) ==
    <<[event |-> "State changed", subsystem |-> subsystem, from |-> old_state,
       to |-> state]>>

\* if old_state != state: logger.info("[...] State changed from %s to %s", ...)
state_change(subsystem, old_state, state) ==
    IF old_state # state
    THEN <<[event |-> "State changed", subsystem |-> subsystem, from |-> old_state,
            to |-> state]>>
    ELSE <<>>

\* StateManager.set_gps_state(state), called on the StateManager
set_gps_state(state) ==
    /\ gps_state' = state
    /\ last_call' = Call("set_gps_state", None, None, FALSE,
                         state_change("GPS", gps_state, state), <<>>, <<>>)
    /\ UNCHANGED <<ping_finder_state, gps_data_history, current_gps_data, restVars,
                   last_update, module_call, olVars, gpsVars>>

\* StateManager.set_ping_finder_state(state), called on the StateManager
set_ping_finder_state_call(state) ==
    /\ ping_finder_state' = state
    /\ last_call' = Call("set_ping_finder_state", None, None, FALSE,
                         state_change("PingFinder", ping_finder_state, state),
                         <<>>, <<>>)
    /\ UNCHANGED <<gps_state, gps_data_history, current_gps_data, restVars,
                   last_update, module_call, olVars, gpsVars>>

-----------------------------------------------------------------------------
(* PingFinderModule._callback *)

\* frequencies of the detected pings
Frequencies == {173}

\* the record log_ping writes for a ping resolved to the fix gps_data
PingRecord(frequency, gps_data) ==
    [timestamp |-> gps_data.timestamp, frequency |-> frequency,
     easting |-> gps_data.easting, northing |-> gps_data.northing,
     altitude |-> gps_data.altitude, heading |-> gps_data.heading,
     epsg_code |-> gps_data.epsg_code]

\* PingData(frequency, amplitude, easting, northing, altitude, epsg_code)
PingData(frequency, gps_data) ==
    [type |-> "ping", frequency |-> frequency,
     easting |-> gps_data.easting, northing |-> gps_data.northing,
     altitude |-> gps_data.altitude, epsg_code |-> gps_data.epsg_code]

\* LocEstData(frequency, easting, northing, epsg_code)
LocEstData(frequency, gps_data) ==
    [type |-> "loc_est", frequency |-> frequency,
     easting |-> Some(0), northing |-> Some(0),
     altitude |-> None, epsg_code |-> gps_data.epsg_code]

\* PingFinderModule._get_current_location raises ValueError for this fix
location_unavailable(gps_data) ==
    gps_data.easting = None \/ gps_data.northing = None \/ gps_data.altitude = None

\* a callback that takes the fix current when it runs
resolve_current(now) ==
    IF Len(gps_data_history) = 0 THEN None ELSE Some(current_gps_data)

\* a callback that falls back to the current fix when the history is empty
resolve_fabricate(now) ==
    IF Len(gps_data_history) = 0 THEN Some(current_gps_data)
    ELSE closest_to(gps_data_history, now)

\* the fix the callback resolves the ping at `now` to: the StateManager lookup
resolve(now) == closest_to(gps_data_history, now)

\* PingFinderModule._callback(now, amplitude, frequency).
\*   lookup:   the estimator asks the location callback where the vehicle was
\*   estimate: do_estimate returns an estimate
callback(now, frequency, lookup, estimate) ==
    LET found == resolve(now) IN
    /\ IF found = None
       THEN \* logger.error(...); return
            last_call' = Call("callback", Some(now), None, FALSE, <<>>, <<>>, <<>>)
       ELSE LET gps_data == CHOOSE g \in found : TRUE
                logged == <<PingRecord(frequency, gps_data)>>
                sent1 == IF drone_comms # None
                         THEN <<PingData(frequency, gps_data)>>
                         ELSE <<>>
                \* ValueError leaves add_ping and the callback
                raises == lookup /\ location_unavailable(gps_data)
                sent2 == IF estimate /\ drone_comms # None
                         THEN Append(sent1, LocEstData(frequency, gps_data))
                         ELSE sent1
            IN
            IF raises
            THEN last_call' = Call("callback", Some(now), found, TRUE, logged, sent1, <<>>)
            ELSE last_call' = Call("callback", Some(now), found, FALSE, logged, sent2,
                                   <<[now |-> now, frequency |-> frequency]>>)
    \* add_ping leaves the ping in the module's location estimator
    /\ ping_finder_module' =
          IF last_call'.fed = <<>> THEN ping_finder_module
          ELSE {[m EXCEPT !.estimator = "used"] : m \in ping_finder_module}
    /\ UNCHANGED <<smVars, restVars, last_update, pending_actions, next_packet_id,
                   responses, handler, engine_started, monitor_alive, ack_log, gpsVars,
                   module_call>>

-----------------------------------------------------------------------------
(* PingFinderModule start / stop / reconfigure, run to completion by one caller. *)
(* A coordinator is the record [state, module, started, alive, raised, trace]:   *)
(* the ping-finder state, the module (engine handle fields and estimator),       *)
(* whether the engine handle is started, whether the monitoring thread is alive, *)
(* whether the call raised, and the statements the call executed.  The engine's  *)
(* stop() returns and a thread can always be created.                            *)

Coordinator ==
    [state |-> ping_finder_state, module |-> ping_finder_module,
     started |-> engine_started, alive |-> monitor_alive, raised |-> FALSE,
     trace |-> <<>>]

\* the statement op(arg) has been executed
Did(c, op, arg) == [c EXCEPT !.trace = Append(@, [op |-> op, arg |-> arg])]

\* StateManager.set_ping_finder_state(state)
set_ping_finder_state(c, state) ==
    Did([c EXCEPT !.state = state], "set_ping_finder_state", state)

\* the SDR types _configure_ping_finder accepts
valid_sdr_types == {"USRP", "AIRSPY", "HACKRF", "GENERATOR"}

\* the SDR type strings given to the module
SdrTypeInputs == {"GENERATOR", "usrp", "rtlsdr"}

\* str.upper() on the SDR type strings
Upper(sdr_type) ==
    CASE sdr_type = "usrp" -> "USRP"
      [] sdr_type = "rtlsdr" -> "RTLSDR"
      [] OTHER -> sdr_type

\* PingFinder(): a new engine handle, nothing configured, no callback registered;
\* the module keeps the estimator it has
NewHandle(estimator) ==
    [config |-> None, sdr_type |-> None, callback |-> FALSE, estimator |-> estimator]

\* _configure_ping_finder(config, sdr_type) on the module's engine handle
configure_ping_finder(c, config, sdr_type) ==
    LET m == CHOOSE x \in c.module : TRUE IN
    IF Upper(sdr_type) \notin valid_sdr_types
    THEN Did([c EXCEPT !.raised = TRUE], "raise", "ValueError")
    ELSE Did([c EXCEPT !.module = Some([m EXCEPT !.config = Some(config),
                                                 !.sdr_type = Some(Upper(sdr_type)),
                                                 !.callback = TRUE])],
             "configure_ping_finder", config)

\* a reconfigure() that keeps the location estimator of the old configuration
keep_location_estimator(c) == Did(c, "LocationEstimator", "")

\* self._location_estimator = LocationEstimator(self._get_current_location)
new_location_estimator(c) ==
    LET m == CHOOSE x \in c.module : TRUE IN
    Did([c EXCEPT !.module = Some([m EXCEPT !.estimator = "fresh"])],
        "LocationEstimator", "")

\* PingFinderModule.__init__(gps_module, config, state_manager, sdr_type);
\* csv_ok: _initialize_csv_log does not raise
module_init(c, config, sdr_type, csv_ok) ==
    LET c1 == [c EXCEPT !.module = Some(NewHandle("none"))]
        c2 == configure_ping_finder(c1, config, sdr_type) IN
    IF ~csv_ok THEN [c EXCEPT !.raised = TRUE]
    ELSE IF c2.raised THEN [c EXCEPT !.raised = TRUE]
    ELSE set_ping_finder_state(new_location_estimator(c2), "Idle")

\* a start() that spawns the monitoring loop although the engine failed to start
start_failed_spawns(c) ==
    set_ping_finder_state(Did([c EXCEPT !.alive = TRUE], "thread.start", ""), "Running")

\* start(): the except branch
start_failed(c) == set_ping_finder_state(c, "Error")

\* a start() that does not look at the state
start_guard_always(c) == TRUE

\* start(): get_ping_finder_state() == PingFinderState.IDLE.value
start_guard(c) == c.state = "Idle"

\* PingFinderModule.start(); engine_ok: the engine's start() does not raise
module_start(c, engine_ok) ==
    IF start_guard(c)
    THEN LET c1 == set_ping_finder_state(c, "Initializing")
             c2 == Did(c1, "stop_event.clear", "") IN
         IF engine_ok
         THEN LET c3 == Did([c2 EXCEPT !.started = TRUE], "ping_finder.start", "returns")
                  c4 == Did([c3 EXCEPT !.alive = TRUE], "thread.start", "") IN
              set_ping_finder_state(c4, "Running")
         ELSE start_failed(Did(c2, "ping_finder.start", "raises"))
    ELSE c

\* a stop() that does not wait for the monitoring thread
join_skipped(c) == c

\* stop(): self._thread.join(); the monitoring thread has seen the stop event,
\* leaves its loop, sets the state to Idle unless it is Error, and ends
join(c) ==
    IF c.alive
    THEN LET c1 == IF c.state # "Error" THEN set_ping_finder_state(c, "Idle") ELSE c IN
         Did([c1 EXCEPT !.alive = FALSE], "thread.join", "")
    ELSE c

\* PingFinderModule.stop()
module_stop(c) ==
    IF c.state # "Idle"
    THEN LET c1 == Did(c, "stop_event.set", "")
             c2 == Did([c1 EXCEPT !.started = FALSE], "ping_finder.stop", "") IN
         set_ping_finder_state(join(c2), "Idle")
    ELSE c

\* a reconfigure() that replaces the engine handle without stopping it
stop_if_running_skipped(c) == c

\* reconfigure(): if the state is not Idle, self.stop()
stop_if_running(c) == IF c.state # "Idle" THEN module_stop(c) ELSE c

\* self._ping_finder = PingFinder(): the old engine handle is dropped
replace_handle(c) ==
    LET m == CHOOSE x \in c.module : TRUE IN
    Did([c EXCEPT !.module = Some(NewHandle(m.estimator)), !.started = FALSE],
        "PingFinder", IF c.started THEN "old handle started" ELSE "old handle stopped")

\* PingFinderModule.reconfigure(config, sdr_type); csv_ok: _initialize_csv_log
\* does not raise
module_reconfigure(c, config, sdr_type, csv_ok) ==
    LET c1 == stop_if_running(c)
        c2 == set_ping_finder_state(c1, "Uncreated")
        c3 == replace_handle(c2)
        c4 == configure_ping_finder(c3, config, sdr_type) IN
    IF ~csv_ok THEN Did([c3 EXCEPT !.raised = TRUE], "raise", "OSError")
    ELSE IF c4.raised THEN c4
    ELSE set_ping_finder_state(new_location_estimator(c4), "Idle")

-----------------------------------------------------------------------------
(* OnlinePingFinderManager *)

\* the configurations a config request carries
ConfigData == {"config_a"}

\* HardwareConfig.SDR_TYPE of the vehicle
SDR_TYPE == "GENERATOR"

PacketIds == 1..MaxPackets

HandlerIdle == [pc |-> "idle", type |-> "none", packet_id |-> 0, data |-> None,
                stash |-> FALSE]

\* the handler has sent its response and holds the packet id the send returned
HandlerSent(type, packet_id, data, stash) ==
    [pc |-> "sent", type |-> type, packet_id |-> packet_id, data |-> data,
     stash |-> stash]

NoAck == [acked |-> FALSE, discarded |-> FALSE, late_ack |-> FALSE, executed |-> 0]

\* drone_comms.send_*_response(...): the link takes the packet and returns its id
send(type, success) ==
    /\ next_packet_id \in PacketIds
    /\ responses' = (next_packet_id :> [type |-> type, success |-> success]) @@ responses
    /\ ack_log' = (next_packet_id :> NoAck) @@ ack_log
    /\ next_packet_id' = next_packet_id + 1

\* OnlinePingFinderManager._execute_sync_action
execute_sync_action(c) ==
    IF c.module # None
    THEN LET s == IF c.state # "Idle" THEN module_stop(c) ELSE c IN
         [s EXCEPT !.state = "Uncreated", !.module = None]
    ELSE c

\* OnlinePingFinderManager._execute_start_action
execute_start_action(c, engine_ok) ==
    IF c.module = None
    THEN [c EXCEPT !.raised = TRUE]
    ELSE module_start(c, engine_ok)

\* OnlinePingFinderManager._execute_stop_action
execute_stop_action(c) ==
    IF c.module = None
    THEN [c EXCEPT !.raised = TRUE]
    ELSE module_stop(c)

\* OnlinePingFinderManager._execute_config_action; config_ok: from_dict accepts
\* the dictionary, build_ok: the module's constructor / reconfigure does not raise
execute_config_action(c, config, config_ok, build_ok) ==
    IF ~config_ok THEN [c EXCEPT !.raised = TRUE]
    ELSE IF c.module = None
    THEN module_init(c, config, SDR_TYPE, build_ok)
    ELSE module_reconfigure(c, config, SDR_TYPE, build_ok)

\* what can go wrong while a stashed action runs: the engine's start() raises,
\* PingFinderConfig.from_dict rejects the dictionary, or the construction /
\* reconfiguration of the module raises (CSV logs, SDR type)
Faults == {"none", "engine", "config", "build"}

\* the dispatch of _handle_ack_success on the action type
execute(c, action, fault) ==
    CASE action.type = "sync" -> execute_sync_action(c)
      [] action.type = "start" -> execute_start_action(c, fault # "engine")
      [] action.type = "stop" -> execute_stop_action(c)
      [] action.type = "config" ->
            execute_config_action(c, CHOOSE d \in action.data : TRUE,
                                  fault # "config", fault # "build")

\* the coordinator record written back to the variables
SetCoordinator(c) ==
    /\ ping_finder_state' = c.state
    /\ ping_finder_module' = c.module
    /\ engine_started' = c.started
    /\ monitor_alive' = c.alive

pfVars == <<ping_finder_state, ping_finder_module, engine_started, monitor_alive>>
onlineFrame == <<gps_data_history, current_gps_data, restVars, obVars, gpsVars>>

\* the configurations given to reconfigure
ModuleConfigs == {"config_a", "config_b"}

moduleFrame == <<gps_state, gps_data_history, current_gps_data, restVars, last_call,
                 last_update, pending_actions, next_packet_id, responses, handler,
                 ack_log, gpsVars>>

\* the observer's record of a call on the module
ModuleCall(op, c) == [op |-> op, before |-> Some(Coordinator), trace |-> c.trace,
                      raised |-> c.raised]

\* a caller runs PingFinderModule.start()
start(engine_ok) ==
    LET c == module_start(Coordinator, engine_ok) IN
    /\ ping_finder_module # None
    /\ SetCoordinator(c)
    /\ module_call' = ModuleCall("start", c)
    /\ UNCHANGED moduleFrame

\* a caller runs PingFinderModule.stop()
stop ==
    LET c == module_stop(Coordinator) IN
    /\ ping_finder_module # None
    /\ SetCoordinator(c)
    /\ module_call' = ModuleCall("stop", c)
    /\ UNCHANGED moduleFrame

\* a caller runs PingFinderModule.reconfigure(config, sdr_type)
reconfigure(config, sdr_type, csv_ok) ==
    LET c == module_reconfigure(Coordinator, config, sdr_type, csv_ok) IN
    /\ ping_finder_module # None
    /\ SetCoordinator(c)
    /\ module_call' = ModuleCall("reconfigure", c)
    /\ UNCHANGED moduleFrame

\* _handle_sync_request up to the return of send_sync_response
handle_sync_request ==
    /\ handler.pc = "idle"
    /\ send("sync", gps_state = "Running")
    /\ handler' = HandlerSent("sync", next_packet_id, None, TRUE)
    /\ UNCHANGED <<gps_state, pfVars, pending_actions, onlineFrame>>

\* _handle_start_request up to the return of send_start_response
handle_start_request ==
    LET success == ping_finder_module # None IN
    /\ handler.pc = "idle"
    /\ send("start", success)
    /\ handler' = HandlerSent("start", next_packet_id, None, success)
    /\ UNCHANGED <<gps_state, pfVars, pending_actions, onlineFrame>>

\* _handle_stop_request up to the return of send_stop_response
handle_stop_request ==
    LET success == ping_finder_module # None IN
    /\ handler.pc = "idle"
    /\ send("stop", success)
    /\ handler' = HandlerSent("stop", next_packet_id, None, success)
    /\ UNCHANGED <<gps_state, pfVars, pending_actions, onlineFrame>>

\* _handle_config_request up to the return of send_config_response.  (When
\* _get_output_directory raises, the handler sends an error packet, stashes
\* nothing and returns: no field of the manager changes.)
handle_config_request(data) ==
    /\ handler.pc = "idle"
    /\ send("config", TRUE)
    /\ handler' = HandlerSent("config", next_packet_id, Some(data), TRUE)
    /\ UNCHANGED <<gps_state, pfVars, pending_actions, onlineFrame>>

\* a handler that applies the action at once instead of stashing it
stash_and_execute ==
    /\ handler.pc = "sent"
    /\ IF handler.stash
       THEN SetCoordinator(execute(Coordinator,
                                   [type |-> handler.type, data |-> handler.data],
                                   "none"))
       ELSE UNCHANGED pfVars
    /\ handler' = HandlerIdle
    /\ UNCHANGED <<gps_state, pending_actions, next_packet_id, responses, ack_log,
                   onlineFrame>>

\* a start / stop handler that stashes its action whatever the success it answered
stash_always ==
    /\ handler.pc = "sent"
    /\ pending_actions' =
          (handler.packet_id :> [type |-> handler.type, data |-> handler.data])
              @@ pending_actions
    /\ handler' = HandlerIdle
    /\ UNCHANGED <<gps_state, pfVars, next_packet_id, responses, ack_log, onlineFrame>>

\* the statement after the send call: self._pending_actions[packet_id] = (type, data)
\* (start / stop: only when success), and the handler returns
stash_pending_action ==
    /\ handler.pc = "sent"
    /\ pending_actions' =
          IF handler.stash
          THEN (handler.packet_id :> [type |-> handler.type, data |-> handler.data])
                   @@ pending_actions
          ELSE pending_actions
    /\ handler' = HandlerIdle
    /\ UNCHANGED <<gps_state, pfVars, next_packet_id, responses, ack_log, onlineFrame>>

\* dict.pop(packet_id)
Pop(pending, packet_id) == [q \in DOMAIN pending \ {packet_id} |-> pending[q]]

\* _handle_ack_success(packet_id), called by the link on its own thread
handle_ack_success(packet_id, fault) ==
    /\ packet_id \in DOMAIN responses
    /\ IF packet_id \notin DOMAIN pending_actions
       THEN /\ ack_log' = [ack_log EXCEPT ![packet_id].acked = TRUE,
                                          ![packet_id].late_ack = @ \/ ack_log[packet_id].discarded]
            /\ UNCHANGED <<pfVars, pending_actions, next_packet_id, responses>>
       ELSE LET c == execute(Coordinator, pending_actions[packet_id], fault) IN
            /\ pending_actions' = Pop(pending_actions, packet_id)
            /\ SetCoordinator(c)
            \* (when the action raised, an error packet is sent)
            /\ ack_log' = [ack_log EXCEPT ![packet_id].acked = TRUE,
                                           ![packet_id].executed = @ + 1]
            /\ UNCHANGED <<next_packet_id, responses>>
    /\ UNCHANGED <<gps_state, handler, onlineFrame>>

\* a timeout handler that logs and leaves the stashed action in the table
handle_ack_timeout_keep(packet_id) ==
    /\ packet_id \in DOMAIN pending_actions
    /\ ack_log' = [ack_log EXCEPT ![packet_id].discarded = TRUE]
    /\ UNCHANGED <<gps_state, pfVars, pending_actions, next_packet_id, responses,
                   handler, onlineFrame>>

\* _handle_ack_timeout(packet_id), called by the link on its own thread
handle_ack_timeout(packet_id) ==
    /\ packet_id \in DOMAIN responses
    /\ IF packet_id \in DOMAIN pending_actions
       THEN /\ pending_actions' = Pop(pending_actions, packet_id)
            /\ ack_log' = [ack_log EXCEPT ![packet_id].discarded = TRUE]
       ELSE UNCHANGED <<pending_actions, ack_log>>
    /\ UNCHANGED <<gps_state, pfVars, next_packet_id, responses, handler, onlineFrame>>

\* the GPS states of a running acquisition loop
GpsLoopStates == {"Initializing", "Running"}

-----------------------------------------------------------------------------
(* GPSModule: run() on the acquisition thread, stop() on a controlling thread *)

\* GPSModule._max_errors
max_errors == 5

\* positions of the acquisition thread at which run() is not executing
LoopExited == {"none", "done", "dead"}

gpsFrame == <<ping_finder_state, restVars, olVars>>

\* run() is entered on a new thread: set_gps_state(INITIALIZING)
run_enter ==
    /\ loop_pc \in LoopExited
    /\ stop_pc = "none"
    /\ gps_state' = "Initializing"
    /\ loop_pc' = "set_running"
    /\ stop_returned' = FALSE
    /\ UNCHANGED <<gps_data_history, current_gps_data, obVars, running, error_count,
                   loop_fix, stop_pc, gpsFrame>>
    /\ last_read' = "no read"
    /\ UNCHANGED plVars

\* run(): self._running.set()
run_set ==
    /\ loop_pc = "set_running"
    /\ running' = TRUE
    /\ loop_pc' = "check"
    /\ UNCHANGED <<smVars, obVars, error_count, loop_fix, stop_pc, stop_returned,
                   restVars, olVars>>
    /\ UNCHANGED <<last_read, plVars>>

\* run(): while self._running.is_set()
loop_check ==
    /\ loop_pc = "check"
    /\ loop_pc' = IF running THEN "read" ELSE "done"
    /\ UNCHANGED <<smVars, obVars, running, error_count, loop_fix, stop_pc,
                   stop_returned, restVars, olVars>>
    /\ UNCHANGED <<last_read, plVars>>

\* _read_gps_data: the transport returns None; then the retry sleep
read_none ==
    /\ loop_pc = "read"
    /\ error_count < MaxFailures
    /\ error_count' = error_count + 1
    /\ gps_state' = IF error_count + 1 >= max_errors THEN "Error" ELSE gps_state
    /\ loop_pc' = "check"
    /\ UNCHANGED <<gps_data_history, current_gps_data, obVars, running, loop_fix,
                   stop_pc, stop_returned, gpsFrame>>
    /\ last_read' = "None"
    /\ UNCHANGED plVars

\* _read_gps_data: the transport returns no bytes; then the retry sleep
read_empty ==
    /\ loop_pc = "read"
    /\ error_count' = 0
    /\ loop_pc' = "check"
    /\ UNCHANGED <<smVars, obVars, running, loop_fix, stop_pc, stop_returned,
                   restVars, olVars>>
    /\ last_read' = "no bytes"
    /\ UNCHANGED plVars

\* a chunk is read and _process_buffer finds no batch to commit (no complete
\* sentence, no parsable sentence, or a fix the safety validation rejects) and no
\* data timeout
read_no_fix ==
    /\ loop_pc = "read"
    /\ error_count' = 0
    /\ loop_pc' = "check"
    /\ loop_fix' = None
    /\ UNCHANGED <<smVars, obVars, running, stop_pc, stop_returned, restVars, olVars>>
    /\ last_read' = "data"
    /\ UNCHANGED plVars

\* a chunk is read, _process_buffer finds no sentence and the last commit is more
\* than GPS_DATA_TIMEOUT old
read_timeout ==
    /\ loop_pc = "read"
    /\ error_count' = 0
    /\ loop_pc' = "timeout_get"
    /\ UNCHANGED <<smVars, obVars, running, loop_fix, stop_pc, stop_returned,
                   restVars, olVars>>
    /\ last_read' = "data"
    /\ UNCHANGED plVars

\* a data timeout that demotes the state whatever it is
timeout_get_any ==
    /\ loop_pc = "timeout_get"
    /\ loop_pc' = "timeout_set"
    /\ UNCHANGED <<smVars, obVars, running, error_count, loop_fix, stop_pc,
                   stop_returned, restVars, olVars>>
    /\ UNCHANGED <<last_read, plVars>>

\* _process_buffer: self._state_manager.get_gps_state() == GPSState.RUNNING.value
timeout_get ==
    /\ loop_pc = "timeout_get"
    /\ loop_pc' = IF gps_state = "Running" THEN "timeout_set" ELSE "check"
    /\ UNCHANGED <<smVars, obVars, running, error_count, loop_fix, stop_pc,
                   stop_returned, restVars, olVars>>
    /\ UNCHANGED <<last_read, plVars>>

\* _process_buffer: set_gps_state(GPSState.INITIALIZING)
timeout_set ==
    /\ loop_pc = "timeout_set"
    /\ gps_state' = "Initializing"
    /\ loop_pc' = "check"
    /\ UNCHANGED <<gps_data_history, current_gps_data, obVars, running, error_count,
                   loop_fix, stop_pc, stop_returned, gpsFrame>>
    /\ UNCHANGED <<last_read, plVars>>

\* a chunk is read and _process_buffer parses a batch whose fix passes
\* _validate_data_safety
read_fix(data) ==
    /\ loop_pc = "read"
    /\ error_count' = 0
    \* _validate_data_safety has set is_valid
    /\ loop_fix' = Some([data EXCEPT !.is_valid = TRUE])
    /\ loop_pc' = "commit"
    /\ UNCHANGED <<smVars, obVars, running, stop_pc, stop_returned, restVars, olVars>>
    /\ last_read' = "data"
    /\ UNCHANGED plVars

\* _latlon_to_utm(latitude, longitude): the projection to the configured system
latlon_to_utm(latitude, longitude) == <<100 - longitude, 200 + latitude>>

\* a write of the projected coordinates that leaves the code out
projected_without_code(d) ==
    IF d.latitude # None /\ d.longitude # None
    THEN LET lat == CHOOSE v \in d.latitude : TRUE
             lon == CHOOSE v \in d.longitude : TRUE IN
         [d EXCEPT !.easting = Some(latlon_to_utm(lat, lon)[1]),
                   !.northing = Some(latlon_to_utm(lat, lon)[2])]
    ELSE d

\* _update_gps_data: easting, northing and epsg_code of a fix with a position
projected(d) ==
    IF d.latitude # None /\ d.longitude # None
    THEN LET lat == CHOOSE v \in d.latitude : TRUE
             lon == CHOOSE v \in d.longitude : TRUE IN
         [d EXCEPT !.easting = Some(latlon_to_utm(lat, lon)[1]),
                   !.northing = Some(latlon_to_utm(lat, lon)[2]),
                   !.epsg_code = Some(TEST_EPSG_CODE)]
    ELSE d

\* _update_gps_data: self._state_manager.update_gps_data(new_gps_data); a
\* TypeError raised by the insertion leaves run() (only UnicodeDecodeError is caught)
commit ==
    /\ loop_pc = "commit"
    /\ \E data \in loop_fix :
          /\ store_gps_data(projected(data))
          /\ loop_pc' =
                IF last_call'.raised THEN "dead"
                ELSE IF data.latitude # None /\ data.longitude # None THEN "get_state"
                ELSE "check"
    /\ loop_fix' = None
    /\ UNCHANGED <<gps_state, running, error_count, stop_pc, stop_returned, gpsFrame,
                   module_call>>
    /\ UNCHANGED <<last_read, plVars>>

\* a promotion to Running that does not look at the current state
get_state_any ==
    /\ loop_pc = "get_state"
    /\ loop_pc' = "set_state"
    /\ UNCHANGED <<smVars, obVars, running, error_count, loop_fix, stop_pc,
                   stop_returned, restVars, olVars>>
    /\ UNCHANGED <<last_read, plVars>>

\* _update_gps_data: current_state = self._state_manager.get_gps_state()
get_state ==
    /\ loop_pc = "get_state"
    /\ loop_pc' = IF gps_state = "Initializing" THEN "set_state" ELSE "check"
    /\ UNCHANGED <<smVars, obVars, running, error_count, loop_fix, stop_pc,
                   stop_returned, restVars, olVars>>
    /\ UNCHANGED <<last_read, plVars>>

\* _update_gps_data: set_gps_state(GPSState.RUNNING)
set_state ==
    /\ loop_pc = "set_state"
    /\ gps_state' = "Running"
    /\ loop_pc' = "check"
    /\ UNCHANGED <<gps_data_history, current_gps_data, obVars, running, error_count,
                   loop_fix, stop_pc, stop_returned, gpsFrame>>
    /\ UNCHANGED <<last_read, plVars>>

\* stop() is called on a controlling thread: self._running.clear()
stop_clear ==
    /\ stop_pc = "none"
    /\ running' = FALSE
    /\ stop_pc' = "set_idle"
    /\ UNCHANGED <<smVars, obVars, error_count, loop_pc, loop_fix, stop_returned,
                   restVars, olVars>>
    /\ UNCHANGED <<last_read, plVars>>

\* stop(): set_gps_state(GPSState.IDLE), and stop() returns
stop_set_idle ==
    /\ stop_pc = "set_idle"
    /\ gps_state' = "Idle"
    /\ stop_pc' = "none"
    /\ stop_returned' = TRUE
    /\ UNCHANGED <<gps_data_history, current_gps_data, obVars, running, error_count,
                   loop_pc, loop_fix, gpsFrame>>
    /\ UNCHANGED <<last_read, plVars>>

-----------------------------------------------------------------------------
(* GPSModule: the text read from the transport and its NMEA sentences.      *)
(* A text is a sequence of symbols: the body of a sentence, the checksum    *)
(* that ends a sentence, and the newline. A field of a sentence is {} when  *)
(* it is empty in the text. Latitudes and longitudes are written in metres  *)
(* of arc, ArcMetresPerDegree to the degree.                                *)

NL == [kind |-> "newline"]
END == [kind |-> "end"]

\* "$GPGGA,...": altitude, satellites in use, horizontal dilution, quality indicator
GGA(altitude, num_sats, horizontal_dil, gps_qual) ==
    [kind |-> "GGA", altitude |-> altitude, num_sats |-> num_sats,
     horizontal_dil |-> horizontal_dil, gps_qual |-> gps_qual]

\* "$GPRMC,...": latitude, longitude, true course
RMC(latitude, longitude, true_course) ==
    [kind |-> "RMC", latitude |-> latitude, longitude |-> longitude,
     true_course |-> true_course]

\* "$GPGSV,...": a sentence of another type
GSV == [kind |-> "GSV"]

\* a complete sentence and its newline
Line(body) == <<body, END, NL>>

\* text.split("\n")
RECURSIVE split(_)
split(text) ==
    IF \A i \in 1..Len(text) : text[i].kind # "newline" THEN <<text>>
    ELSE LET i == CHOOSE k \in 1..Len(text) :
                      /\ text[k].kind = "newline"
                      /\ \A j \in 1..(k - 1) : text[j].kind # "newline"
         IN <<SubSeq(text, 1, i - 1)>> \o split(SubSeq(text, i + 1, Len(text)))

\* sentences[:-1]
Front(s) == SubSeq(s, 1, Len(s) - 1)

\* a buffer that forgets the incomplete sentence
keep_nothing(sentences) == <<>>

\* self._buffer = sentences[-1]
keep_incomplete(sentences) == Last(sentences)

\* pynmea2.parse(sentence): a message for a body closed by its checksum, ParseError
\* for anything else
parse(sentence) ==
    IF /\ Len(sentence) = 2
       /\ sentence[1].kind \in {"GGA", "RMC", "GSV"}
       /\ sentence[2].kind = "end"
    THEN [raised |-> FALSE, msg |-> sentence[1]]
    ELSE [raised |-> TRUE, msg |-> NL]

\* `x if x else None` for a field pynmea2 converts to a number: None and 0 are false
number_or_none(x) == IF x = None \/ x = Some(0) THEN None ELSE x

\* `x if x else None` for a field pynmea2 leaves a string: only "" is false
string_or_none(x) == x

\* _process_sentences: the fields one parsed message sets
apply_message(msg, new_gps_data) ==
    IF msg.kind = "GGA"
    THEN [new_gps_data EXCEPT !.altitude = number_or_none(msg.altitude),
                              !.satellite_count = string_or_none(msg.num_sats),
                              !.hdop = string_or_none(msg.horizontal_dil),
                              !.fix_quality = number_or_none(msg.gps_qual)]
    ELSE IF msg.kind = "RMC"
    THEN [new_gps_data EXCEPT !.latitude = number_or_none(msg.latitude),
                              !.longitude = number_or_none(msg.longitude),
                              !.heading = number_or_none(msg.true_course)]
    ELSE new_gps_data

\* _process_sentences(sentences): the loop over the sentences
RECURSIVE process_sentences(_, _, _)
process_sentences(sentences, data_updated, new_gps_data) ==
    IF sentences = <<>>
    THEN [data_updated |-> data_updated,
          new_gps_data |-> IF data_updated THEN Some(new_gps_data) ELSE None]
    ELSE LET sentence == Head(sentences)
             parsed == parse(sentence) IN
         IF sentence = <<>> \/ parsed.raised
         THEN process_sentences(Tail(sentences), data_updated, new_gps_data)
         ELSE process_sentences(Tail(sentences), TRUE,
                                apply_message(parsed.msg, new_gps_data))

-----------------------------------------------------------------------------
(* GPSData.validate, GPSData.check_quality, GPSModule._validate_data_safety *)

ArcMetresPerDegree == 111195
MIN_LATITUDE == -90
MAX_LATITUDE == 90
MIN_LONGITUDE == -180
MAX_LONGITUDE == 180
MIN_ALTITUDE == -1000
MAX_ALTITUDE == 100000
MIN_HEADING == 0
MAX_HEADING == 360
MAX_HDOP == 100
MAX_SATELLITES == 32
MAX_FIX_QUALITY == 6
MIN_SATELLITES == 4
MAX_HDOP_QUALITY == 5
MAX_POSITION_JUMP == 1000
MAX_ALTITUDE_JUMP == 100

\* GPSData.validate()
validate(d) ==
    /\ \A v \in d.latitude : /\ MIN_LATITUDE * ArcMetresPerDegree <= v
                             /\ v <= MAX_LATITUDE * ArcMetresPerDegree
    /\ \A v \in d.longitude : /\ MIN_LONGITUDE * ArcMetresPerDegree <= v
                              /\ v <= MAX_LONGITUDE * ArcMetresPerDegree
    /\ \A v \in d.altitude : MIN_ALTITUDE <= v /\ v <= MAX_ALTITUDE
    /\ \A v \in d.heading : MIN_HEADING <= v /\ v <= MAX_HEADING
    /\ \A v \in d.hdop : 0 < v /\ v < MAX_HDOP
    /\ \A v \in d.satellite_count : 0 <= v /\ v <= MAX_SATELLITES
    /\ \A v \in d.fix_quality : 0 <= v /\ v <= MAX_FIX_QUALITY

\* GPSData.check_quality()
check_quality(d) ==
    /\ \A v \in d.satellite_count : ~(v < MIN_SATELLITES)
    /\ \A v \in d.hdop : ~(v > MAX_HDOP_QUALITY)
    /\ \A v \in d.fix_quality : v # 0

\* _calculate_distance: the haversine distance; the positions of the model lie on
\* one meridian, where it is the difference of the arcs
calculate_distance(lat1, lon1, lat2, lon2) == Abs(lat2 - lat1)

\* _validate_data_safety: "Check for position jumps"
position_jump(position, d) ==
    /\ position # None /\ d.latitude # None /\ d.longitude # None
    /\ \E p \in position, lat \in d.latitude, lon \in d.longitude :
          calculate_distance(p[1], p[2], lat, lon) > MAX_POSITION_JUMP

\* _validate_data_safety: time_diff = timestamp - last_valid_time if last_valid_time
\* else 1.0 (None and 0 are false)
time_diff(d, time) ==
    IF time = None \/ time = Some(0) THEN 1
    ELSE d.timestamp - (CHOOSE t \in time : TRUE)

\* _validate_data_safety: the altitude check is made
altitude_checked(altitude, d) == altitude # None /\ d.altitude # None

\* _validate_data_safety: altitude_diff / time_diff raises ZeroDivisionError
altitude_rate_raises(altitude, time, d) ==
    altitude_checked(altitude, d) /\ time_diff(d, time) = 0

\* _validate_data_safety: altitude_rate > MAX_ALTITUDE_JUMP (a negative time_diff
\* makes the rate negative or zero)
altitude_jump(altitude, time, d) ==
    /\ altitude_checked(altitude, d)
    /\ time_diff(d, time) > 0
    /\ \E a \in altitude, b \in d.altitude :
          Abs(b - a) > MAX_ALTITUDE_JUMP * time_diff(d, time)

\* _validate_data_safety(gps_data): what it returns or raises, and the check that
\* decided
validate_data_safety(position, altitude, time, d) ==
    IF ~validate(d) THEN [verdict |-> "rejected", reason |-> "range"]
    ELSE IF ~check_quality(d) THEN [verdict |-> "rejected", reason |-> "quality"]
    ELSE IF position_jump(position, d)
    THEN [verdict |-> "rejected", reason |-> "position jump"]
    ELSE IF altitude_rate_raises(altitude, time, d)
    THEN [verdict |-> "raised", reason |-> "ZeroDivisionError"]
    ELSE IF altitude_jump(altitude, time, d)
    THEN [verdict |-> "rejected", reason |-> "altitude rate"]
    ELSE [verdict |-> "accepted", reason |-> "none"]

\* a validation that remembers the position of a batch before it has checked it
remember_unchecked(verdict, old, d) ==
    IF d.latitude # None /\ d.longitude # None
    THEN [old EXCEPT !.position =
                         {<<lat, lon>> : lat \in d.latitude, lon \in d.longitude}]
    ELSE old

\* _validate_data_safety: "Update last valid values", reached only by a fix that
\* passed every check
remember(verdict, old, d) ==
    IF verdict # "accepted" THEN old
    ELSE [position |-> IF d.latitude # None /\ d.longitude # None
                       THEN {<<lat, lon>> : lat \in d.latitude, lon \in d.longitude}
                       ELSE old.position,
          altitude |-> IF d.altitude # None THEN d.altitude ELSE old.altitude,
          time |-> Some(d.timestamp)]

\* the longest incomplete sentence the buffer holds
MaxBuffer == 2

\* the observer's record of a _process_buffer call
Batch(lines, fix, outcome, reason) ==
    [lines |-> lines, fix |-> fix, outcome |-> outcome, reason |-> reason]

\* run(): a chunk is read and appended to the buffer, and _process_buffer splits
\* the buffer, parses the complete sentences into one fix and validates it. An
\* accepted fix goes to the commit; ZeroDivisionError leaves run().
process_buffer(chunk, now, stale) ==
    /\ loop_pc = "read"
    /\ now >= clock
    /\ LET sentences == split(buffer \o chunk)
           p == process_sentences(Front(sentences), FALSE, GPSData(now))
           old == [position |-> last_valid_position, altitude |-> last_valid_altitude,
                   time |-> last_valid_time]
       IN /\ Len(keep_incomplete(sentences)) <= MaxBuffer
          /\ buffer' = keep_incomplete(sentences)
          /\ IF p.data_updated
             THEN \E d \in p.new_gps_data :
                     LET v == validate_data_safety(old.position, old.altitude, old.time, d)
                         new == remember(v.verdict, old, d) IN
                     /\ last_valid_position' = new.position
                     /\ last_valid_altitude' = new.altitude
                     /\ last_valid_time' = new.time
                     /\ loop_fix' = IF v.verdict = "accepted"
                                    THEN Some([d EXCEPT !.is_valid = TRUE]) ELSE None
                     /\ loop_pc' = IF v.verdict = "accepted" THEN "commit"
                                   ELSE IF v.verdict = "raised" THEN "dead" ELSE "check"
                     /\ batch' = Batch(Front(sentences), Some(d), v.verdict, v.reason)
             ELSE /\ UNCHANGED <<last_valid_position, last_valid_altitude,
                                 last_valid_time>>
                  /\ loop_fix' = None
                  /\ loop_pc' = IF stale THEN "timeout_get" ELSE "check"
                  /\ batch' = Batch(Front(sentences), None, "no data", "none")
    /\ clock' = now
    /\ error_count' = 0
    /\ last_read' = "data"
    /\ UNCHANGED <<smVars, obVars, running, stop_pc, stop_returned, restVars, olVars>>

-----------------------------------------------------------------------------
(* Initial values *)

\* StateManager.__init__
InitStateManager ==
    /\ gps_state = "Uncreated"
    /\ ping_finder_state = "Uncreated"
    /\ gps_data_history = <<>>
    /\ current_gps_data = GPSData(0)

\* PingFinderModule.__init__(..., drone_comms): offline or online
InitCallback ==
    drone_comms \in {None, Some("link")}

InitObserver ==
    /\ last_call = Call("init", None, None, FALSE, <<>>, <<>>, <<>>)
    /\ last_update = None
    /\ module_call = [op |-> "none", before |-> None, trace |-> <<>>, raised |-> FALSE]

\* OnlinePingFinderManager.__init__
InitOnline ==
    /\ ping_finder_module = None
    /\ pending_actions = <<>>
    /\ next_packet_id = 1
    /\ responses = <<>>
    /\ handler = HandlerIdle
    /\ engine_started = FALSE
    /\ monitor_alive = FALSE
    /\ ack_log = <<>>

\* GPSModule.__init__ (before the StateManager is told Idle)
InitGPS ==
    /\ running = FALSE
    /\ error_count = 0
    /\ loop_pc = "none"
    /\ loop_fix = None
    /\ stop_pc = "none"
    /\ stop_returned = FALSE
    /\ last_read = "no read"
    /\ buffer = <<>>
    /\ last_valid_position = None
    /\ last_valid_altitude = None
    /\ last_valid_time = None
    /\ clock = 0
    /\ batch = Batch(<<>>, None, "none", "none")

\* StateManager.__init__ of the variant driven by triggers: both machines are
\* constructed in their initial state
InitMachines ==
    /\ gps_state_machine = "Initializing"
    /\ ping_finder_state_machine = "Idle"

\* no thread is inside an operation of the StateManager
InitLock ==
    /\ lock = None
    /\ update_pc = "idle"
    /\ update_data = None
    /\ reader = [pc |-> "idle", op |-> "none", time |-> None, overlapped |-> FALSE]

\* the threads that call start() and stop() on the coordinator
ControlThreads == {"a", "b"}

\* the monitoring threads start() can create
MonitorIds == {"first", "second"}

\* PingFinderModule.__init__: self._stop_event = threading.Event(),
\* self._thread = None; no control call has begun
InitControl ==
    /\ ctl = [t \in ControlThreads |->
                 [op |-> "none", pc |-> "idle", joins |-> None, raised |-> FALSE]]
    /\ stop_event = FALSE
    /\ thread = None
    /\ monitors = [m \in MonitorIds |-> "unborn"]
    /\ engine_starts = 0

\* the state the later sections add to the system
InitRest == InitMachines /\ InitLock /\ earlier_pc = "none" /\ InitControl

-----------------------------------------------------------------------------
(* The StateManager alone: a writer of fixes and the readers of the history *)

\* no PingFinderModule has been constructed
NoPingFinder == drone_comms = None

Init == InitStateManager /\ NoPingFinder /\ InitObserver /\ InitOnline /\ InitGPS /\ InitRest

Next ==
    \/ \E data \in FixInputs : update_gps_data(data)
    \/ \E t \in QueryTimes : get_gps_data_closest_to(t)
    \/ get_current_gps_data

Spec == Init /\ [][Next]_vars

-----------------------------------------------------------------------------
(* The ping callback: the acquisition side writes fixes while the detection *)
(* engine fires PingFinderModule._callback on its own thread                *)

\* GPSModule.__init__ and PingFinderModule.__init__ have set both states to Idle
InitPingStates ==
    /\ gps_state = "Idle"
    /\ ping_finder_state = "Idle"
    /\ gps_data_history = <<>>
    /\ current_gps_data = GPSData(0)

InitPing ==
    InitPingStates /\ InitCallback /\ InitObserver /\ InitOnline /\ InitGPS /\ InitRest

NextPing ==
    \/ \E data \in FixInputs : update_gps_data(data)
    \/ \E now \in QueryTimes, f \in Frequencies, lookup \in BOOLEAN, estimate \in BOOLEAN :
           callback(now, f, lookup, estimate)

SpecPing == InitPing /\ [][NextPing]_vars

-----------------------------------------------------------------------------
(* Properties of the StateManager (checked under Spec) *)

\* number of occurrences of x in the sequence s
Count(s, x) == Cardinality({i \in 1..Len(s) : s[i] = x})

\* e is an entry of h nearest to t, the earlier one when two are equally near
Nearest(h, t, e) ==
    /\ e \in Range(h)
    /\ \A x \in Range(h) :
          /\ Abs(e.timestamp - t) <= Abs(x.timestamp - t)
          /\ Abs(e.timestamp - t) = Abs(x.timestamp - t) => e.timestamp <= x.timestamp

\* C1: get_gps_data_closest_to(t) returns the entry of the retained history that
\* minimises abs(entry.timestamp - t), a tie going to the earlier entry; for t
\* before all entries it is the earliest entry, for t after all entries the
\* latest, and with a single entry it is that entry.
C1_ClosestMinimisesDistance ==
    (last_call.op = "get_gps_data_closest_to" /\ Len(gps_data_history) > 0) =>
        LET h == gps_data_history
            t == CHOOSE q \in last_call.time : TRUE IN
        \E e \in last_call.result :
            /\ last_call.result = {e}
            /\ Nearest(h, t, e)
            /\ (\A x \in Range(h) : t < x.timestamp) =>
                   \A x \in Range(h) : e.timestamp <= x.timestamp
            /\ (\A x \in Range(h) : t > x.timestamp) =>
                   \A x \in Range(h) : e.timestamp >= x.timestamp
            /\ Len(h) = 1 => e = h[1]

\* a lookup exactly half-way between two entries returned the earlier one
C1_Witness ==
    /\ last_call.op = "get_gps_data_closest_to"
    /\ \E i, j \in 1..Len(gps_data_history), t \in last_call.time :
          /\ gps_data_history[i].timestamp < t
          /\ t < gps_data_history[j].timestamp
          /\ t - gps_data_history[i].timestamp = gps_data_history[j].timestamp - t
          /\ j = i + 1
          /\ last_call.result = {gps_data_history[i]}

\* C6: the history never holds more than MAX_HISTORY entries; an insertion into a
\* full history removes exactly one entry, one with the smallest timestamp among
\* the old entries and the inserted fix.
C6_CapAndEvictOldest ==
    [][ /\ Len(gps_data_history') <= MAX_HISTORY
        /\ (/\ last_call'.op = "update_gps_data"
            /\ ~last_call'.raised
            /\ Len(gps_data_history) = MAX_HISTORY) =>
              LET new == CHOOSE d \in last_update' : TRUE
                  all == Range(gps_data_history) \cup {new} IN
              /\ Len(gps_data_history') = MAX_HISTORY
              /\ \E out \in all :
                    /\ \A x \in all : out.timestamp <= x.timestamp
                    /\ \A x \in all :
                          Count(gps_data_history', x) =
                              Count(gps_data_history, x)
                              + (IF x = new THEN 1 ELSE 0)
                              - (IF x = out THEN 1 ELSE 0)
      ]_vars

\* a fix older than a full history was inserted and was itself the entry evicted
C6_Witness ==
    /\ last_call.op = "update_gps_data"
    /\ ~last_call.raised
    /\ Len(gps_data_history) = MAX_HISTORY
    /\ current_gps_data \notin Range(gps_data_history)

\* C7: get_current_gps_data() returns the argument of the most recent
\* update_gps_data call; before any update it returns a default-constructed fix
\* whose position fields are all empty.
C7_CurrentIsLastArgument ==
    last_call.op = "get_current_gps_data" =>
        IF last_update = None
        THEN \E d \in last_call.result :
                /\ d.latitude = None /\ d.longitude = None /\ d.altitude = None
                /\ d.easting = None /\ d.northing = None
        ELSE last_call.result = last_update

\* C8: the history is sorted in ascending timestamp order in every reachable state.
C8_HistorySorted ==
    \A i, j \in 1..Len(gps_data_history) :
        i < j => gps_data_history[i].timestamp <= gps_data_history[j].timestamp

\* the most recent fix written has a timestamp older than entries written before
\* it, and sits in front of them
C8_Witness ==
    /\ last_call.op = "update_gps_data"
    /\ Len(gps_data_history) = MAX_HISTORY
    /\ current_gps_data = gps_data_history[1]
    /\ gps_data_history[1].timestamp < gps_data_history[2].timestamp

-----------------------------------------------------------------------------
(* Properties of the ping callback (checked under SpecPing) *)

\* C9: a ping callback fired with a non-empty history logs one ping record and,
\* when the remote link is active, sends exactly one ping-data message; both carry
\* the easting, northing, altitude and EPSG code of the history entry closest to
\* the ping's timestamp (not those of the current fix).
C9_PingCarriesClosestFix ==
    (last_call.op = "callback" /\ Len(gps_data_history) > 0) =>
        LET t == CHOOSE q \in last_call.time : TRUE
            pings == {i \in 1..Len(last_call.sent) : last_call.sent[i].type = "ping"} IN
        \E e \in Range(gps_data_history) :
            /\ Nearest(gps_data_history, t, e)
            /\ Len(last_call.logged) = 1
            /\ last_call.logged[1].easting = e.easting
            /\ last_call.logged[1].northing = e.northing
            /\ last_call.logged[1].altitude = e.altitude
            /\ last_call.logged[1].epsg_code = e.epsg_code
            /\ Cardinality(pings) = (IF drone_comms # None THEN 1 ELSE 0)
            /\ \A i \in pings :
                  /\ last_call.sent[i].easting = e.easting
                  /\ last_call.sent[i].northing = e.northing
                  /\ last_call.sent[i].altitude = e.altitude
                  /\ last_call.sent[i].epsg_code = e.epsg_code

\* a ping was resolved, with the link active, to a history entry whose position
\* differs from the position of the current fix
C9_Witness ==
    /\ last_call.op = "callback"
    /\ drone_comms # None
    /\ Len(last_call.sent) > 0
    /\ current_gps_data \in Range(gps_data_history)
    /\ last_call.sent[1].easting # None
    /\ current_gps_data.easting # None
    /\ last_call.sent[1].easting # current_gps_data.easting

\* C10: a ping callback fired while the history is empty returns without raising;
\* it logs no ping record, sends no message, feeds nothing to the estimator and
\* leaves the StateManager (both states, history, current fix) as it was.
C10_EmptyHistoryCallbackIsSilent ==
    [][ (last_call'.op = "callback" /\ Len(gps_data_history) = 0) =>
            /\ ~last_call'.raised
            /\ last_call'.result = None
            /\ last_call'.logged = <<>>
            /\ last_call'.sent = <<>>
            /\ last_call'.fed = <<>>
            /\ UNCHANGED smVars
      ]_vars

\* the callback has fired on an empty history
C10_Witness ==
    /\ last_call.op = "callback"
    /\ Len(gps_data_history) = 0
    /\ last_call.result = None

\* C11: the ping callback never lets an exception reach the detection engine's
\* thread and never changes a subsystem state or the stored fixes, whatever the
\* history holds - also when the closest fix lacks easting, northing or altitude
\* and the location callback invoked by the estimator raises.
C11_CallbackNeverRaises ==
    [][ last_call'.op = "callback" =>
            /\ ~last_call'.raised
            /\ UNCHANGED smVars
      ]_vars

-----------------------------------------------------------------------------
(* The online manager: the request-handling thread, the link's acknowledgment *)
(* callbacks and the acquisition side moving the GPS state                    *)

\* the manager is constructed while the acquisition loop runs; no module is
\* configured yet
InitOnlineStates ==
    /\ gps_state \in GpsLoopStates
    /\ ping_finder_state = "Uncreated"
    /\ gps_data_history = <<>>
    /\ current_gps_data = GPSData(0)
    /\ drone_comms = Some("link")

InitOnlineSpec == InitOnlineStates /\ InitObserver /\ InitOnline /\ InitGPS /\ InitRest

NextOnline ==
    \/ handle_sync_request
    \/ handle_start_request
    \/ handle_stop_request
    \/ \E data \in ConfigData : handle_config_request(data)
    \/ stash_pending_action
    \/ \E p \in PacketIds, fault \in Faults : handle_ack_success(p, fault)
    \/ \E p \in PacketIds : handle_ack_timeout(p)

SpecOnline == InitOnlineSpec /\ [][NextOnline]_vars

-----------------------------------------------------------------------------
(* Properties of the online manager (checked under SpecOnline) *)

\* the handler of the request answered by packet p stashes an action for it
Stashes(p) ==
    \/ responses[p].type \in {"sync", "config"}
    \/ responses[p].type \in {"start", "stop"} /\ responses[p].success

\* C2: no request handler changes the ping-finder state, the module reference or
\* the engine; a step that changes one of them is the acknowledgment-success
\* callback executing the action stashed under the packet id of the response that
\* was sent for the request.
C2_EffectsOnlyOnAckSuccess ==
    [][ (pfVars' # pfVars) =>
            /\ handler' = handler
            /\ \E p \in DOMAIN pending_actions :
                  /\ p \notin DOMAIN pending_actions'
                  /\ ack_log'[p].acked
                  /\ ack_log'[p].executed = ack_log[p].executed + 1
                  /\ responses[p].type = pending_actions[p].type
      ]_vars

\* a module configured after an acknowledged config response, with a start
\* request answered and stashed, and nothing started yet
C2_Witness ==
    /\ ping_finder_module # None
    /\ ping_finder_state = "Idle"
    /\ ~engine_started
    /\ handler.pc = "idle"
    /\ \E p \in DOMAIN pending_actions :
          pending_actions[p].type = "start" /\ responses[p].success

\* C3: when the acknowledgment-success callback has fired for the packet id of a
\* response whose handler stashes an action (and no timeout discarded it), the
\* action has been executed exactly once as soon as the handler has returned,
\* whatever the interleaving of the handler and the callback; a repeated
\* acknowledgment executes nothing more.
C3_AckedActionExecutedOnce ==
    \A p \in DOMAIN responses :
        /\ ack_log[p].executed <= 1
        /\ (/\ Stashes(p)
            /\ ack_log[p].acked
            /\ ~ack_log[p].discarded
            /\ ~(handler.pc = "sent" /\ handler.packet_id = p)) =>
               ack_log[p].executed = 1

\* C4: an acknowledgment timeout for a packet id with a stashed action removes the
\* action from the pending table and changes neither the ping-finder state nor the
\* module reference nor the engine; the action is not executed afterwards, not
\* even by a later acknowledgment-success callback for the same id.
C4_TimeoutDiscardsAction ==
    [][ \A p \in DOMAIN ack_log :
          /\ (ack_log'[p].discarded /\ ~ack_log[p].discarded) =>
                /\ p \in DOMAIN pending_actions
                /\ p \notin DOMAIN pending_actions'
                /\ pfVars' = pfVars
          /\ ack_log[p].discarded =>
                /\ ack_log'[p].executed = ack_log[p].executed
                /\ p \notin DOMAIN pending_actions'
      ]_vars

\* a stashed action was discarded by a timeout, the acknowledgment-success
\* callback fired for the same id afterwards, and the action was never executed
C4_Witness ==
    \E p \in DOMAIN ack_log :
        /\ ack_log[p].discarded
        /\ ack_log[p].late_ack
        /\ ack_log[p].executed = 0
        /\ responses[p].type = "stop"
        /\ ping_finder_state = "Running"

-----------------------------------------------------------------------------
(* The coordinator: callers run start(), stop() and reconfigure() one after *)
(* another on a constructed PingFinderModule while the started engine fires *)
(* the ping callback                                                        *)

\* the coordinator PingFinderModule.__init__ leaves, constructed offline with a
\* first configuration while the acquisition loop has committed one fix
InitModuleStates ==
    LET c == module_init([state |-> "Uncreated", module |-> None, started |-> FALSE,
                          alive |-> FALSE, raised |-> FALSE, trace |-> <<>>],
                         "config_a", SDR_TYPE, TRUE) IN
    /\ gps_state = "Running"
    /\ gps_data_history = <<PositionFix(0, 1)>>
    /\ current_gps_data = PositionFix(0, 1)
    /\ ping_finder_state = c.state
    /\ ping_finder_module = c.module
    /\ engine_started = c.started
    /\ monitor_alive = c.alive
    /\ drone_comms = None

InitModule ==
    /\ InitModuleStates
    /\ InitObserver
    /\ pending_actions = <<>>
    /\ next_packet_id = 1
    /\ responses = <<>>
    /\ handler = HandlerIdle
    /\ ack_log = <<>>
    /\ InitGPS
    /\ InitRest

NextModule ==
    \/ \E engine_ok \in BOOLEAN : start(engine_ok)
    \/ stop
    \/ \E config \in ModuleConfigs, sdr_type \in SdrTypeInputs, csv_ok \in BOOLEAN :
           reconfigure(config, sdr_type, csv_ok)
    \/ /\ engine_started
       /\ \E now \in Timestamps, f \in Frequencies, lookup \in BOOLEAN, estimate \in BOOLEAN :
             callback(now, f, lookup, estimate)

SpecModule == InitModule /\ [][NextModule]_vars

\* the coordinator before the most recent call
Before == CHOOSE c \in module_call.before : TRUE

\* the positions in the most recent call's trace at which op(arg) was executed
At(op, arg) ==
    {i \in 1..Len(module_call.trace) :
        module_call.trace[i].op = op /\ module_call.trace[i].arg = arg}

\* the positions at which op was executed, whatever its argument
AtOp(op) == {i \in 1..Len(module_call.trace) : module_call.trace[i].op = op}

\* some execution of a is followed by an execution of b
Precedes(a, b) == \E i \in a, j \in b : i < j

\* the engine handle of a module: its fields without the estimator, which the
\* engine's callbacks feed between the calls
Handle(module) == {[config |-> m.config, sdr_type |-> m.sdr_type, callback |-> m.callback] :
                      m \in module}

\* the most recent call executed nothing and the coordinator is as it was before
Untouched ==
    /\ module_call.trace = <<>>
    /\ ping_finder_state = Before.state
    /\ Handle(ping_finder_module) = Handle(Before.module)
    /\ engine_started = Before.started
    /\ monitor_alive = Before.alive

\* C12: start() called in state Idle sets the state to Initializing and then
\* invokes the engine's start; when that returns, the monitoring loop is spawned
\* and the state is Running; when it raises, the state is Error and no monitoring
\* loop is spawned.
C12_StartFromIdle ==
    (module_call.op = "start" /\ Before.state = "Idle") =>
        /\ module_call.trace[1] = [op |-> "set_ping_finder_state", arg |-> "Initializing"]
        /\ Cardinality(AtOp("ping_finder.start")) = 1
        /\ Precedes(At("set_ping_finder_state", "Initializing"), AtOp("ping_finder.start"))
        /\ IF At("ping_finder.start", "returns") # {}
           THEN /\ Precedes(AtOp("ping_finder.start"), AtOp("thread.start"))
                /\ Cardinality(AtOp("thread.start")) = 1
                /\ ping_finder_state = "Running"
                /\ monitor_alive
                /\ engine_started
           ELSE /\ AtOp("thread.start") = {}
                /\ ping_finder_state = "Error"
                /\ ~monitor_alive

\* start() was called in state Idle and the engine's start raised
C12_Witness ==
    /\ module_call.op = "start"
    /\ Before.state = "Idle"
    /\ At("ping_finder.start", "raises") # {}
    /\ ping_finder_state = "Error"

\* C13: start() called in a state other than Idle does nothing: the engine's
\* start is not invoked, no thread is spawned, the state is unchanged.
C13_StartNotIdleIsNoOp ==
    (module_call.op = "start" /\ Before.state # "Idle") => Untouched

\* start() was called on a running ping finder
C13_Witness ==
    /\ module_call.op = "start"
    /\ Before.state = "Running"
    /\ Before.alive
    /\ ping_finder_state = "Running"

-----------------------------------------------------------------------------
(* The acquisition pipeline: the loop thread of run() and a thread calling stop() *)

\* GPSModule.__init__ has set the GPS state to Idle; no ping finder exists
InitGPSStates ==
    /\ gps_state = "Idle"
    /\ ping_finder_state = "Uncreated"
    /\ gps_data_history = <<>>
    /\ current_gps_data = GPSData(0)

InitGPSSpec ==
    InitGPSStates /\ NoPingFinder /\ InitObserver /\ InitOnline /\ InitGPS /\ InitRest

NextGPS ==
    \/ run_enter
    \/ run_set
    \/ loop_check
    \/ read_none
    \/ read_empty
    \/ read_no_fix
    \/ read_timeout
    \/ timeout_get
    \/ timeout_set
    \/ \E data \in FixInputs : read_fix(data)
    \/ commit
    \/ get_state
    \/ set_state
    \/ stop_clear
    \/ stop_set_idle

SpecGPS == InitGPSSpec /\ [][NextGPS]_vars

\* C5: once stop() has returned and the acquisition loop has exited, the GPS
\* state is Idle (and stays Idle until run() is entered again), whatever the
\* iteration the loop thread had in flight when stop() was called.
C5_IdleAfterStop ==
    (stop_returned /\ stop_pc = "none" /\ loop_pc \in LoopExited) => gps_state = "Idle"

\* the fix has both latitude and longitude
HasCoordinates(data) == data.latitude # None /\ data.longitude # None

\* C17: a commit does not itself change the GPS state; after a commit the loop
\* thread looks at the state exactly when the committed fix has latitude and
\* longitude, and sets Running exactly when it found Initializing; so the state
\* becomes Running only in the step that follows such a commit and look-up, and a
\* fix without coordinates or a state other than Initializing changes nothing.
C17_RunningAfterCoordinateFix ==
    [][ /\ (loop_pc = "commit" /\ loop_pc' # "commit") =>
              /\ gps_state' = gps_state
              /\ loop_pc' = "get_state" <=>
                    (~last_call'.raised /\ \A d \in last_update' : HasCoordinates(d))
        /\ (loop_pc = "get_state" /\ loop_pc' # "get_state") =>
              /\ gps_state' = gps_state
              /\ loop_pc' = "set_state" <=> gps_state = "Initializing"
              /\ loop_pc' # "set_state" => loop_pc' = "check"
        /\ (loop_pc = "set_state" /\ loop_pc' # "set_state") => gps_state' = "Running"
        /\ (gps_state' = "Running" /\ gps_state # "Running") =>
              /\ loop_pc = "set_state"
              /\ last_call.op = "update_gps_data" /\ ~last_call.raised
              /\ \A d \in last_update : HasCoordinates(d)
      ]_vars

\* the state has become Running after the commit of a fix with coordinates
C17_Witness ==
    /\ gps_state = "Running"
    /\ loop_pc = "check"
    /\ last_call.op = "update_gps_data"
    /\ \A d \in last_update : HasCoordinates(d)
    /\ Len(gps_data_history) = 1

\* C19: every transport read that fails (None or no bytes) increments the
\* consecutive-failure counter, every read that returns data resets it to 0, and
\* the reading step sets the GPS state to Error exactly when the counter reaches
\* max_errors.
C19_FailedReadsCounted ==
    [][ /\ (read_none \/ read_empty) =>
              /\ error_count' = error_count + 1
              /\ error_count' >= max_errors => gps_state' = "Error"
        /\ (read_no_fix \/ read_timeout \/ \E data \in FixInputs : read_fix(data)) =>
              error_count' = 0
        /\ (gps_state' = "Error" /\ gps_state # "Error") => error_count' >= max_errors
      ]_vars

\* C20: in state Error no step of the acquisition loop changes the GPS state, and
\* reaching Error does not end the loop (it goes on reading while the running flag
\* is set); the state leaves Error only when stop() sets Idle or when run() is
\* entered again and sets Initializing.
C20_ErrorIsSticky ==
    [][ /\ (gps_state = "Error" /\ gps_state' # "Error") =>
              \/ stop_pc = "set_idle" /\ stop_pc' = "none" /\ gps_state' = "Idle"
              \/ /\ loop_pc \in LoopExited /\ loop_pc' = "set_running"
                 /\ gps_state' = "Initializing"
        /\ (gps_state # "Error" /\ gps_state' = "Error") => loop_pc' = "check"
        /\ (gps_state = "Error" /\ loop_pc = "check" /\ loop_pc' # "check" /\ running) =>
              loop_pc' = "read"
      ]_vars

\* in state Error a read returned data and a fix with coordinates was committed
C20_Witness ==
    /\ gps_state = "Error"
    /\ loop_pc = "get_state"
    /\ error_count = 0
    /\ last_read = "data"

\* the acquisition pipeline whose threads keep taking steps: the loop of run()
\* iterates (each failed read is followed by the retry sleep, so time passes)
SpecGPSLive == SpecGPS /\ WF_vars(NextGPS)

\* C18: the GPS state does not stay Running for ever while the loop iterates and
\* no read returns data (every read returns None or no bytes): once the data
\* timeout has passed in such a period the state becomes Initializing.
C18_SilenceDemotes ==
    []<>(\/ gps_state # "Running"
         \/ loop_pc \in LoopExited
         \/ ~running
         \/ last_read = "data")

-----------------------------------------------------------------------------
(* The acquisition pipeline: run() reads chunks of whole sentences, and      *)
(* _process_buffer parses, validates and commits them. The timestamps of the *)
(* batches stay below the data timeout.                                      *)

\* the batches' timestamps, read from the clock, are 0..MaxClock
MaxClock == 1

BatchTimes == 0..MaxClock

\* altitudes the receiver reports, in metres
Altitudes == {100, 300}

\* latitudes the receiver reports, in metres of arc
Positions == {500, 1000, 2000}

\* a GGA sentence whose quality values are good
GoodGGA(altitude) == GGA(Some(altitude), Some(4), Some(4), Some(1))

\* the GGA sentences of the receiver: good ones, and one for each way of not being
\* good (3 satellites, 40 satellites, dilution 5, dilution 6, quality indicator 0)
GGABodies ==
    {GoodGGA(a) : a \in Altitudes} \cup
    {GGA(Some(100), Some(3), Some(4), Some(1)),
     GGA(Some(100), Some(40), Some(4), Some(1)),
     GGA(Some(100), Some(4), Some(5), Some(1)),
     GGA(Some(100), Some(4), Some(6), Some(1)),
     GGA(Some(100), Some(4), Some(4), Some(0))}

\* the RMC sentences of the receiver
RMCBodies == {RMC(Some(p), Some(7), Some(90)) : p \in Positions}

\* the chunks read: one whole sentence
PipelineChunks ==
    {Line(g) : g \in GGABodies} \cup {Line(r) : r \in RMCBodies}

NextPipeline ==
    \/ run_enter
    \/ run_set
    \/ loop_check
    \/ \E chunk \in PipelineChunks, now \in BatchTimes :
           process_buffer(chunk, now, FALSE)
    \/ commit
    \/ get_state
    \/ set_state

SpecPipeline == InitGPSSpec /\ [][NextPipeline]_vars

-----------------------------------------------------------------------------
(* Requests with no module, and the sync request (checked under SpecOnline) *)

\* the response p answered a start or stop request with success = false
Refused(p) == responses[p].type \in {"start", "stop"} /\ ~responses[p].success

\* C28: a start or stop request handled while the manager holds no module is
\* answered with success = false; no action is ever pending or executed for the
\* packet id of such a response, and an acknowledgment of it changes neither the
\* ping-finder state nor the module reference.
C28_NoModuleRequestRefused ==
    [][/\ (/\ handler.pc = "idle" /\ handler'.pc = "sent"
           /\ handler'.type \in {"start", "stop"}
           /\ ping_finder_module = None) =>
              /\ ~responses'[handler'.packet_id].success
              /\ ~handler'.stash
       /\ \A p \in DOMAIN responses' :
             Refused(p)' =>
                /\ p \notin DOMAIN pending_actions'
                /\ ack_log'[p].executed = 0
                /\ (p \in DOMAIN ack_log /\ ack_log'[p] # ack_log[p]) =>
                       UNCHANGED <<ping_finder_state, ping_finder_module>>]_vars

\* a refused start response has been acknowledged after its handler returned
C28_Witness ==
    \E p \in DOMAIN responses :
        /\ responses[p].type = "start" /\ ~responses[p].success
        /\ ack_log[p].acked
        /\ ping_finder_module = None
        /\ handler.pc = "idle"

\* C29: the step in which the response to a sync request is positively
\* acknowledged (for the first time, before any timeout of it) leaves the manager
\* without a module and the ping-finder state Uncreated.
C29_SyncAckClearsModule ==
    [][\A p \in DOMAIN responses :
          (/\ responses[p].type = "sync"
           /\ ~ack_log[p].acked /\ ~ack_log[p].discarded
           /\ ack_log'[p].acked) =>
              ping_finder_module' = None /\ ping_finder_state' = "Uncreated"]_vars

-----------------------------------------------------------------------------
(* Properties of the acquisition pipeline (checked under SpecPipeline) *)

\* the step is a _process_buffer call of the acquisition thread
ProcessStep == loop_pc = "read" /\ loop_pc' # "read"

\* C21: when _validate_data_safety rejects the fix of a batch (range, quality,
\* position jump or altitude rate), the step writes nothing of it: the history,
\* the current fix, the GPS state and the remembered last valid position,
\* altitude and time are what they were before the batch.
C21_RejectedBatchWritesNothing ==
    [][(ProcessStep /\ batch'.outcome = "rejected") =>
           UNCHANGED <<gps_data_history, current_gps_data, gps_state,
                       last_valid_position, last_valid_altitude, last_valid_time>>]_vars

\* a batch with a position is rejected for its distance from a remembered position,
\* after fixes were committed and an altitude was remembered
C21_Witness ==
    /\ batch.outcome = "rejected"
    /\ batch.reason = "position jump"
    /\ \E d \in batch.fix : d.latitude # None
    /\ Len(gps_data_history) > 0
    /\ last_valid_altitude # None

\* a parsed GGA sentence of the lines reports a quality value that is not good:
\* fewer than MIN_SATELLITES satellites, a dilution of MAX_HDOP_QUALITY or more, or
\* the quality indicator 0
ReportsPoorQuality(lines) ==
    \E i \in 1..Len(lines) :
        /\ ~parse(lines[i]).raised
        /\ parse(lines[i]).msg.kind = "GGA"
        /\ LET msg == parse(lines[i]).msg IN
           \/ \E v \in msg.num_sats : v < MIN_SATELLITES
           \/ \E v \in msg.horizontal_dil : v >= MAX_HDOP_QUALITY
           \/ \E v \in msg.gps_qual : v = 0

\* C22: a batch is written to the StateManager only if every quality value its
\* sentences report is good: at least 4 satellites, a dilution below 5, a quality
\* indicator other than 0.
C22_CommitsOnlyGoodQuality ==
    (last_call.op = "update_gps_data" /\ ~last_call.raised) =>
        ~ReportsPoorQuality(batch.lines)

\* the fixes of the history that have a position, in the order of the history
PositionEntries(h) == SelectSeq(h, HasCoordinates)

\* the latitude of a fix that has one
LatitudeOf(d) == CHOOSE v \in d.latitude : TRUE

\* C23: a fix with a position is committed only within 1000 m of the fix with a
\* position committed before it (the batches' timestamps do not decrease, so the
\* history holds the committed fixes in the order of their commits).
C23_CommittedPositionsContinuous ==
    \A i \in 1..(Len(PositionEntries(gps_data_history)) - 1) :
        LET h == PositionEntries(gps_data_history) IN
        Abs(LatitudeOf(h[i + 1]) - LatitudeOf(h[i])) <= MAX_POSITION_JUMP

\* C25: run() ends (returns or raises) only after stop() has cleared the running
\* flag: no batch makes an iteration leave the loop.
C25_RunEndsOnlyAfterStop ==
    loop_pc \in {"done", "dead"} => ~running

\* the fixes written to the StateManager
WrittenFixes ==
    Range(gps_data_history) \cup (IF last_update = None THEN {} ELSE {current_gps_data})

\* C27: every fix the pipeline has written has easting, northing and epsg_code
\* set exactly when it has latitude and longitude, and empty otherwise; the
\* epsg_code is the code given to the GPSModule at construction.
C27_ProjectedTogether ==
    \A d \in WrittenFixes :
        /\ (d.easting # None) = HasCoordinates(d)
        /\ (d.northing # None) = HasCoordinates(d)
        /\ (d.epsg_code # None) = HasCoordinates(d)
        /\ d.epsg_code \subseteq {TEST_EPSG_CODE}

\* the history holds a written fix with a position and one without
C27_Witness ==
    /\ \E d \in Range(gps_data_history) : HasCoordinates(d) /\ d.epsg_code # None
    /\ \E d \in Range(gps_data_history) : ~HasCoordinates(d) /\ d.altitude # None

\* the acquisition thread keeps taking its steps
SpecPipelineLive == SpecPipeline /\ WF_vars(NextPipeline)

\* the most recent batch is one RMC sentence of good quality at latitude q
ReportsPosition(q) ==
    batch.lines = <<<<RMC(Some(q), Some(7), Some(90)), END>>>>

\* the most recent batch has a position and passed the validation
AcceptedPosition ==
    batch.outcome = "accepted" /\ \E d \in batch.fix : HasCoordinates(d)

\* C24: after a batch at a position q was rejected by the position-jump check, if
\* every batch from then on is a good fix at q (a steady receiver: each report
\* is 0 m from the one before it, no altitude is reported), a batch with a
\* position is eventually accepted and goes to the commit.
C24_RejectionResolves ==
    \A q \in Positions :
        (ReportsPosition(q) /\ batch.outcome = "rejected" /\ batch.reason = "position jump")
            ~> (~ReportsPosition(q) \/ AcceptedPosition)

-----------------------------------------------------------------------------
(* The line buffer: run() reads chunks that end anywhere in a sentence *)

\* the longest chunk read
MaxChunk == 2

\* the symbols of the text read
Symbols == {GoodGGA(100), RMC(Some(500), Some(7), Some(90)), END, NL}

\* the chunks read: every text of 1..MaxChunk symbols
TextChunks == UNION {[1..n -> Symbols] : n \in 1..MaxChunk}

NextBuffer ==
    \/ run_enter
    \/ run_set
    \/ loop_check
    \/ \E chunk \in TextChunks, now \in BatchTimes, stale \in BOOLEAN :
           process_buffer(chunk, now, stale)
    \/ timeout_get
    \/ timeout_set
    \/ commit
    \/ get_state
    \/ set_state

SpecBuffer == InitGPSSpec /\ [][NextBuffer]_vars

-----------------------------------------------------------------------------
(* Properties of the line buffer (checked under SpecBuffer) *)

\* the text has no newline
NoNewline(text) == \A i \in 1..Len(text) : text[i].kind # "newline"

\* the text that follows the last newline of the text (all of it when it has none)
AfterLastNewline(text) ==
    LET newlines == {i \in 1..Len(text) : text[i].kind = "newline"}
        last == IF newlines = {} THEN 0
                ELSE CHOOSE i \in newlines : \A j \in newlines : j <= i
    IN SubSeq(text, last + 1, Len(text))

\* the lines, each followed by its newline, one after the other
RECURSIVE Joined(_)
Joined(lines) ==
    IF lines = <<>> THEN <<>> ELSE Head(lines) \o <<NL>> \o Joined(Tail(lines))

\* the fix of a batch whose only sentence is the good GGA sentence
GGAOnlyFix(d) ==
    /\ d.altitude = Some(100) /\ d.satellite_count = Some(4)
    /\ d.hdop = Some(4) /\ d.fix_quality = Some(1)
    /\ d.latitude = None /\ d.longitude = None /\ d.heading = None

\* a complete GGA sentence followed by the body of an RMC sentence
GGAThenPartialRMC ==
    Line(GoodGGA(100)) \o <<RMC(Some(500), Some(7), Some(90))>>

\* C26: a _process_buffer call on (buffer + chunk) leaves in the buffer exactly
\* the text after the last newline, without a newline, and hands to the parser
\* exactly the newline-terminated segments, each once: the segments it parsed,
\* their newlines and the new buffer are the old buffer and the chunk, symbol for
\* symbol. For a complete GGA sentence followed by a partial RMC sentence the
\* fix built has the GGA fields only, an accepted one is the one fix the commit
\* then writes, and the partial sentence stays in the buffer.
C26_BufferKeepsTheIncompleteLine ==
    [][/\ \A chunk \in TextChunks :
             (ProcessStep /\ process_buffer(chunk, clock', loop_pc' = "timeout_get")) =>
                 /\ buffer' = AfterLastNewline(buffer \o chunk)
                 /\ NoNewline(buffer')
                 /\ Joined(batch'.lines) \o buffer' = buffer \o chunk
                 /\ (buffer \o chunk = GGAThenPartialRMC =>
                        /\ buffer' = <<RMC(Some(500), Some(7), Some(90))>>
                        /\ \E d \in batch'.fix : GGAOnlyFix(d)
                        /\ batch'.outcome \in {"accepted", "raised"}
                        /\ batch'.outcome = "accepted" =>
                               \E d \in loop_fix' : GGAOnlyFix(d) /\ loop_fix' = {d})
       /\ (loop_pc = "commit" /\ loop_pc' # "commit" /\ ~last_call'.raised) =>
             /\ last_update' = {projected(d) : d \in loop_fix}
             /\ \E d \in last_update' :
                    Count(gps_data_history', d) = Count(gps_data_history, d) + 1
                    \/ Len(gps_data_history) = MAX_HISTORY]_vars

\* the GGA sentence of a text that ended inside the RMC sentence was committed as
\* a fix with the GGA fields only, and the partial sentence is in the buffer
C26_Witness ==
    /\ batch.lines = <<<<GoodGGA(100), END>>>>
    /\ buffer = <<RMC(Some(500), Some(7), Some(90))>>
    /\ last_call.op = "update_gps_data" /\ ~last_call.raised
    /\ Len(gps_data_history) = 1
    /\ GGAOnlyFix(gps_data_history[1])
    /\ loop_pc = "check"

-----------------------------------------------------------------------------
(* The two state fields of the StateManager: setters called in any order    *)
(* while a writer stores fixes without a position                           *)

NextStates ==
    \/ \E state \in GPSStates : set_gps_state(state)
    \/ \E state \in PingFinderStates : set_ping_finder_state_call(state)
    \/ \E t \in Timestamps : update_gps_data(AltitudeFix(t))

SpecStates == Init /\ [][NextStates]_vars

\* C30: a set of the GPS state (of the ping-finder state) to the value it has logs
\* no change and leaves the state as it is; a set to another value logs one
\* change; so of two consecutive sets to the same value the second logs nothing
\* and the two log one change (none when the value was already set). A set of
\* one state leaves the other state, the history and the current fix alone.
C30_RedundantSetIsSilent ==
    [][/\ \A state \in GPSStates : set_gps_state(state) =>
             /\ Len(last_call'.logged) = IF gps_state = state THEN 0 ELSE 1
             /\ gps_state = state => gps_state' = gps_state
             /\ (last_call.op = "set_gps_state" /\ gps_state = state) =>
                    /\ last_call'.logged = <<>>
                    /\ Len(last_call.logged) + Len(last_call'.logged) <= 1
             /\ UNCHANGED <<ping_finder_state, gps_data_history, current_gps_data>>
       /\ \A state \in PingFinderStates : set_ping_finder_state_call(state) =>
             /\ Len(last_call'.logged) = IF ping_finder_state = state THEN 0 ELSE 1
             /\ ping_finder_state = state => ping_finder_state' = ping_finder_state
             /\ (last_call.op = "set_ping_finder_state" /\ ping_finder_state = state) =>
                    /\ last_call'.logged = <<>>
                    /\ Len(last_call.logged) + Len(last_call'.logged) <= 1
             /\ UNCHANGED <<gps_state, gps_data_history, current_gps_data>>]_vars

\* a set of the GPS state to Running, the value it had, has logged nothing, while
\* the history holds fixes and the ping-finder state is not the initial one
C30_Witness ==
    /\ last_call.op = "set_gps_state"
    /\ last_call.logged = <<>>
    /\ gps_state = "Running"
    /\ ping_finder_state = "Idle"
    /\ Len(gps_data_history) > 1

-----------------------------------------------------------------------------
(* The StateManager driven by triggers: GPSStateMachine and                 *)
(* PingFinderStateMachine are transitions.Machine models                    *)

\* GPSState
GPSMachineStates == {"Initializing", "Acquiring Signal", "Locked", "Error"}

\* PingFinderState
PingFinderMachineStates == {"Idle", "Configured", "Running", "Error"}

\* machine.add_transition(trigger, source, dest): one transition per source state,
\* the source "*" standing for every state of the machine
add_transition(trigger, sources, dest) ==
    {[trigger |-> trigger, source |-> s, dest |-> dest] : s \in sources}

\* GPSStateMachine.__init__: the transitions it declares
GPSDeclared ==
    add_transition("initialize", GPSMachineStates, "Initializing") \cup
    add_transition("start_acquisition", {"Initializing", "Error"}, "Acquiring Signal") \cup
    add_transition("lock_signal", {"Acquiring Signal"}, "Locked") \cup
    add_transition("error", GPSMachineStates, "Error") \cup
    add_transition("reset", {"Error", "Locked"}, "Initializing")

\* PingFinderStateMachine.__init__: the transitions it declares
PingFinderDeclared ==
    add_transition("configure", {"Idle"}, "Configured") \cup
    add_transition("start", {"Configured"}, "Running") \cup
    add_transition("stop", PingFinderMachineStates, "Idle") \cup
    add_transition("error", PingFinderMachineStates, "Error") \cup
    add_transition("reset", {"Error"}, "Idle")

\* the name of the trigger Machine adds for the state s: "to_%s" % s
to_(s) ==
    CASE s = "Initializing" -> "to_Initializing"
      [] s = "Acquiring Signal" -> "to_Acquiring Signal"
      [] s = "Locked" -> "to_Locked"
      [] s = "Idle" -> "to_Idle"
      [] s = "Configured" -> "to_Configured"
      [] s = "Running" -> "to_Running"
      [] s = "Error" -> "to_Error"

\* Machine(model=self, states=states, initial=...): auto_transitions is left at its
\* default, so the model also gets a trigger to_<state> from every state to each
\* state
machine(states, declared) ==
    declared \cup UNION {add_transition(to_(s), states, s) : s \in states}

\* getattr(model, trigger)(): the state after the call and the exception it
\* raises. A name the model does not have raises AttributeError, a trigger with no
\* transition from the current state raises MachineError.
fire(transitions, state, trigger) ==
    LET enabled == {t \in transitions : t.trigger = trigger /\ t.source = state} IN
    IF \A t \in transitions : t.trigger # trigger
    THEN [state |-> state, raised |-> "AttributeError"]
    ELSE IF enabled = {}
    THEN [state |-> state, raised |-> "MachineError"]
    ELSE [state |-> (CHOOSE t \in enabled : TRUE).dest, raised |-> "none"]

\* the body of update_gps_state / update_ping_finder_state: what it logs
trigger_log(subsystem, trigger, old_state, r) ==
    IF r.raised # "none"
    THEN <<[event |-> "Failed to trigger", subsystem |-> subsystem, trigger |-> trigger]>>
    ELSE state_change(subsystem, old_state, r.state)

\* StateManager.update_gps_state(trigger)
update_gps_state(trigger) ==
    LET r == fire(machine(GPSMachineStates, GPSDeclared), gps_state_machine, trigger) IN
    /\ gps_state_machine' = r.state
    /\ last_call' = Call("update_gps_state", Some(trigger), None, FALSE,
                         trigger_log("GPS", trigger, gps_state_machine, r), <<>>, <<>>)
    /\ UNCHANGED <<ping_finder_state_machine, tmFrame>>

\* StateManager.update_ping_finder_state(trigger)
update_ping_finder_state(trigger) ==
    LET r == fire(machine(PingFinderMachineStates, PingFinderDeclared),
                  ping_finder_state_machine, trigger) IN
    /\ ping_finder_state_machine' = r.state
    /\ last_call' = Call("update_ping_finder_state", Some(trigger), None, FALSE,
                         trigger_log("PingFinder", trigger, ping_finder_state_machine, r),
                         <<>>, <<>>)
    /\ UNCHANGED <<gps_state_machine, tmFrame>>

\* StateManager.get_gps_state() of the variant driven by triggers
get_gps_state_machine ==
    /\ last_call' = Call("get_gps_state", None, Some(gps_state_machine), FALSE,
                         <<>>, <<>>, <<>>)
    /\ UNCHANGED <<smVars, restVars, last_update, module_call, olVars, gpsVars>>

\* the trigger names passed to update_gps_state: the declared ones, the ones the
\* machine adds, and a name the model does not have
GPSTriggerInputs ==
    {"initialize", "start_acquisition", "lock_signal", "error", "reset",
     "to_Initializing", "to_Acquiring Signal", "to_Locked", "to_Error", "land"}

\* the trigger names passed to update_ping_finder_state
PingFinderTriggerInputs == {"configure", "start", "stop", "error", "reset", "to_Running"}

NextTrigger ==
    \/ \E trigger \in GPSTriggerInputs : update_gps_state(trigger)
    \/ \E trigger \in PingFinderTriggerInputs : update_ping_finder_state(trigger)
    \/ get_gps_state_machine

SpecTrigger == Init /\ [][NextTrigger]_vars

\* the transitions the GPS state may take: trigger, state before, state after
DeclaredGPSMoves ==
    {<<"start_acquisition", "Initializing", "Acquiring Signal">>,
     <<"start_acquisition", "Error", "Acquiring Signal">>,
     <<"lock_signal", "Acquiring Signal", "Locked">>,
     <<"reset", "Error", "Initializing">>,
     <<"reset", "Locked", "Initializing">>} \cup
    {<<"error", s, "Error">> : s \in GPSMachineStates} \cup
    {<<"initialize", s, "Initializing">> : s \in GPSMachineStates}

\* C31: the GPS state starts at Initializing; update_gps_state(trigger) moves it
\* along a declared transition when the trigger is allowed in the current state and
\* leaves it as it is for every other trigger name, and raises nothing
C31_OnlyDeclaredTransitions ==
    /\ gps_state_machine = "Initializing"
    /\ [][\A trigger \in GPSTriggerInputs :
             update_gps_state(trigger) =>
                 /\ ~last_call'.raised
                 /\ IF \E d \in GPSMachineStates :
                          <<trigger, gps_state_machine, d>> \in DeclaredGPSMoves
                    THEN <<trigger, gps_state_machine, gps_state_machine'>>
                             \in DeclaredGPSMoves
                    ELSE gps_state_machine' = gps_state_machine]_vars

-----------------------------------------------------------------------------
(* The StateManager under concurrent callers: a writer thread inside        *)
(* update_gps_data, statement by statement, and a reader thread inside a    *)
(* get_* call                                                               *)

\* a `with` statement that does not take the lock
acquire_nothing(owner) == lock' = lock

\* with self._lock: the thread enters when the lock is free
acquire(owner) == lock = None /\ lock' = Some(owner)

\* the end of the with block (also when the block raised)
release(owner) == lock' = None

\* the writer thread calls update_gps_data(data)
update_call(data) ==
    /\ update_pc = "idle"
    /\ update_pc' = "acquire"
    /\ update_data' = Some(data)
    /\ UNCHANGED <<smVars, obVars, lock, reader, lkFrame>>

\* update_gps_data: with self._lock
update_acquire ==
    /\ update_pc = "acquire"
    /\ acquire("writer")
    /\ update_pc' = "insort"
    /\ UNCHANGED <<smVars, obVars, update_data, reader, lkFrame>>

\* update_gps_data: bisect.insort(self._gps_data_history, (data.timestamp, data));
\* a TypeError raised by the comparison leaves the with block
update_insort ==
    /\ update_pc = "insort"
    /\ \E data \in update_data :
          LET r == bisect_right(gps_data_history, data, 0, Len(gps_data_history)) IN
          /\ last_update' = Some(data)
          /\ IF r.raised
             THEN /\ release("writer")
                  /\ update_pc' = "idle"
                  /\ last_call' = Call("update_gps_data", None, None, TRUE, <<>>, <<>>, <<>>)
                  /\ UNCHANGED gps_data_history
             ELSE /\ gps_data_history' = insort(gps_data_history, r.index, data)
                  /\ update_pc' = "current"
                  /\ UNCHANGED <<lock, last_call>>
    /\ UNCHANGED <<current_gps_data, module_call, update_data, reader, lkFrame>>

\* update_gps_data: self._current_gps_data = data
update_current ==
    /\ update_pc = "current"
    /\ \E data \in update_data : current_gps_data' = data
    /\ update_pc' = "evict"
    /\ UNCHANGED <<gps_data_history, obVars, lock, update_data, reader, lkFrame>>

\* update_gps_data: if len(history) > MAX_HISTORY: history.pop(0); the with block ends
update_evict ==
    /\ update_pc = "evict"
    /\ gps_data_history' = evict(gps_data_history)
    /\ release("writer")
    /\ update_pc' = "idle"
    /\ last_call' = Call("update_gps_data", None, None, FALSE, <<>>, <<>>, <<>>)
    /\ UNCHANGED <<current_gps_data, last_update, module_call, update_data, reader, lkFrame>>

\* the calls of the reader thread
ReadOps == {"get_current_gps_data", "get_gps_data_closest_to", "get_gps_state"}

\* the writer is between its first and its last write to the structure
UpdateInside == update_pc \in {"insort", "current", "evict"}

\* the reader thread calls op (with the argument time)
read_call(op, time) ==
    /\ reader.pc = "idle"
    /\ reader' = [pc |-> "acquire", op |-> op, time |-> time, overlapped |-> UpdateInside]
    /\ UNCHANGED <<smVars, obVars, lock, update_pc, update_data, lkFrame>>

\* get_*: with self._lock
read_acquire ==
    /\ reader.pc = "acquire"
    /\ acquire("reader")
    /\ reader' = [reader EXCEPT !.pc = "read"]
    /\ UNCHANGED <<smVars, obVars, update_pc, update_data, lkFrame>>

\* the value the body of the get_* call returns
read_value(op, time) ==
    CASE op = "get_current_gps_data" -> Some(current_gps_data)
      [] op = "get_gps_data_closest_to" ->
             closest_to(gps_data_history, CHOOSE t \in time : TRUE)
      [] op = "get_gps_state" -> Some(gps_state)

\* get_*: the body reads the structure and returns; the with block ends
read_return ==
    /\ reader.pc = "read"
    /\ last_call' = Call(reader.op, reader.time, read_value(reader.op, reader.time),
                         FALSE, <<>>, <<>>, <<>>)
    /\ release("reader")
    /\ reader' = [reader EXCEPT !.pc = "idle"]
    /\ UNCHANGED <<smVars, last_update, module_call, update_pc, update_data, lkFrame>>

\* the fixes the writer thread passes: one per timestamp, and one that shares a
\* timestamp with another and differs from it
LockFixInputs == {AltitudeFix(t) : t \in Timestamps} \cup {PositionFix(0, 1)}

NextLock ==
    \/ \E data \in LockFixInputs : update_call(data)
    \/ update_acquire
    \/ update_insort
    \/ update_current
    \/ update_evict
    \/ read_call("get_current_gps_data", None)
    \/ read_call("get_gps_state", None)
    \/ \E t \in Timestamps : read_call("get_gps_data_closest_to", Some(t))
    \/ read_acquire
    \/ read_return

SpecLock == Init /\ [][NextLock]_vars

\* the history is in timestamp order
HistorySorted ==
    \A i \in 1..(Len(gps_data_history) - 1) :
        gps_data_history[i].timestamp <= gps_data_history[i + 1].timestamp

\* the new entry is in the history and the current fix is not yet the new one
InsertedNotCurrent == update_pc = "current"

\* C32: a reader never observes an intermediate state of update_gps_data: when the
\* body of a get_* call reads the structure, the history has at most MAX_HISTORY
\* entries and is sorted, and no update has inserted its entry without having set
\* the current fix and evicted
C32_ReadersSeeNoIntermediateState ==
    [][(reader.pc = "read" /\ reader'.pc = "idle") =>
           /\ Len(gps_data_history) <= MAX_HISTORY
           /\ HistorySorted
           /\ ~InsertedNotCurrent
           /\ ~UpdateInside]_vars

\* a get_* call that began while update_gps_data was between its writes has returned
C32_Witness ==
    /\ reader.pc = "idle"
    /\ reader.overlapped
    /\ last_call.op \in ReadOps

-----------------------------------------------------------------------------
(* The fields of a batch: sentences that report zeros, and batches with a   *)
(* malformed sentence                                                       *)

\* GGA sentences with the altitude 0 or 100, the other fields good
ZeroGGABodies == {GoodGGA(a) : a \in {0, 100}}

\* RMC sentences on the equator or off it, heading north or east
ZeroRMCBodies == {RMC(Some(lat), Some(7), Some(c)) : lat \in {0, 500}, c \in {0, 90}}

\* a sentence cut before its checksum, and its newline
Malformed(body) == <<body, NL>>

\* the chunks read: one whole sentence, alone or after a malformed one
SentenceChunks ==
    LET good == {Line(b) : b \in ZeroGGABodies \cup ZeroRMCBodies} IN
    good \cup {Malformed(GSV) \o l : l \in good}

NextSentences ==
    \/ run_enter
    \/ run_set
    \/ loop_check
    \/ \E chunk \in SentenceChunks, now \in BatchTimes :
           process_buffer(chunk, now, FALSE)
    \/ commit
    \/ get_state
    \/ set_state

SpecSentences == InitGPSSpec /\ [][NextSentences]_vars

\* the fix d carries every value the message msg reports
Carries(d, msg) ==
    /\ msg.kind = "GGA" =>
          /\ msg.altitude # None => d.altitude = msg.altitude
          /\ msg.num_sats # None => d.satellite_count = msg.num_sats
          /\ msg.horizontal_dil # None => d.hdop = msg.horizontal_dil
          /\ msg.gps_qual # None => d.fix_quality = msg.gps_qual
    /\ msg.kind = "RMC" =>
          /\ msg.latitude # None => d.latitude = msg.latitude
          /\ msg.longitude # None => d.longitude = msg.longitude
          /\ msg.true_course # None => d.heading = msg.true_course

\* C33: every sentence of a batch that parses has its reported values in the fix
\* aggregated from the batch, values equal to 0 included, whether or not another
\* sentence of the batch is malformed
C33_ReportedFieldsRecorded ==
    \A i \in 1..Len(batch.lines) :
        LET parsed == parse(batch.lines[i]) IN
        ~parsed.raised =>
            /\ batch.fix # None
            /\ \A d \in batch.fix : Carries(d, parsed.msg)

-----------------------------------------------------------------------------
(* The current fix and the history (checked under Spec) *)

\* C34: after an update_gps_data call that returned, the current fix is an entry
\* of the retained history, also when the history was full and the fix is older
\* than every entry
C34_CurrentFixIsRetained ==
    (last_call.op = "update_gps_data" /\ ~last_call.raised) =>
        current_gps_data \in Range(gps_data_history)

\* C35: update_gps_data returns without raising for every fix and every history,
\* a fix that shares its timestamp with an entry that differs from it included,
\* and the fix is the current fix afterwards
C35_UpdateNeverRaises ==
    last_call.op = "update_gps_data" =>
        /\ ~last_call.raised
        /\ last_update = Some(current_gps_data)

-----------------------------------------------------------------------------
(* GPSModule restarted: run() on a first thread, stop(), and run() on a new *)
(* thread while the first thread is inside a read or a retry sleep          *)

\* what the steps of the first thread leave alone
earlierFrame ==
    <<gps_data_history, current_gps_data, obVars, running, loop_pc, loop_fix, stop_pc,
      stop_returned, plVars, drone_comms, tmVars, lkVars, coVars, ping_finder_state,
      olVars>>

\* the first run() is entered: set_gps_state(INITIALIZING)
earlier_run_enter ==
    /\ earlier_pc = "none"
    /\ loop_pc = "none"
    /\ stop_pc = "none"
    /\ gps_state' = "Initializing"
    /\ earlier_pc' = "set_running"
    /\ UNCHANGED <<error_count, last_read, earlierFrame>>

\* the first run(): self._running.set()
earlier_run_set ==
    /\ earlier_pc = "set_running"
    /\ running' = TRUE
    /\ earlier_pc' = "check"
    /\ UNCHANGED <<gps_state, gps_data_history, current_gps_data, obVars, error_count,
                   loop_pc, loop_fix, stop_pc, stop_returned, last_read, plVars,
                   drone_comms, tmVars, lkVars, coVars, ping_finder_state, olVars>>

\* the first run(): while self._running.is_set()
earlier_check ==
    /\ earlier_pc = "check"
    /\ earlier_pc' = IF running THEN "read" ELSE "done"
    /\ UNCHANGED <<gps_state, error_count, last_read, earlierFrame>>

\* the first run(): _read_gps_data gets None from the transport; the retry sleep
earlier_read_none ==
    /\ earlier_pc = "read"
    /\ error_count < MaxFailures
    /\ error_count' = error_count + 1
    /\ gps_state' = IF error_count + 1 >= max_errors THEN "Error" ELSE gps_state
    /\ earlier_pc' = "check"
    /\ last_read' = "None"
    /\ UNCHANGED earlierFrame

\* the first run(): _read_gps_data gets no bytes; the retry sleep
earlier_read_empty ==
    /\ earlier_pc = "read"
    /\ error_count' = 0
    /\ earlier_pc' = "check"
    /\ last_read' = "no bytes"
    /\ UNCHANGED <<gps_state, earlierFrame>>

\* the steps of the first thread's loop
EarlierLoop == earlier_check \/ earlier_read_none \/ earlier_read_empty

\* stop() is called once, while the first thread is in its loop
restart_stop_clear ==
    /\ earlier_pc \in {"check", "read"}
    /\ loop_pc = "none"
    /\ ~stop_returned
    /\ stop_clear

\* run() is called again, on a new thread, after stop() has returned
restart_run_enter ==
    /\ earlier_pc \notin {"none", "set_running"}
    /\ stop_returned
    /\ run_enter

NextRestart ==
    \/ earlier_run_enter
    \/ earlier_run_set
    \/ earlier_check
    \/ earlier_read_none
    \/ earlier_read_empty
    \/ restart_stop_clear
    \/ stop_set_idle
    \/ restart_run_enter
    \/ run_set
    \/ loop_check
    \/ read_none
    \/ read_empty

SpecRestart == InitGPSSpec /\ [][NextRestart]_vars

\* every thread that can take a step is scheduled: the first thread's loop, and the
\* rest of the system
SpecRestartLive == SpecRestart /\ WF_vars(EarlierLoop) /\ WF_vars(NextRestart)

\* stop() has returned and the run() called after it has set the flag, while the
\* first thread is still in its loop
Restarted ==
    /\ earlier_pc \in {"check", "read"}
    /\ loop_pc \notin {"none", "set_running"}

\* C36: after a restart the loop of the earlier run() terminates
C36_EarlierLoopTerminates == Restarted ~> (earlier_pc = "done")

-----------------------------------------------------------------------------
(* PingFinderModule.start(), stop() and _run, statement by statement: two   *)
(* control threads make one call each on a coordinator whose state is Idle  *)

\* the control thread t moves to the position pc of its call
Goto(t, pc) == ctl' = [ctl EXCEPT ![t].pc = pc]

\* the call of the control thread t returns
Return(t) == ctl' = [ctl EXCEPT ![t].pc = "returned"]

\* the thread t calls start() or stop()
pf_call(t, op) ==
    /\ ctl[t].pc = "idle"
    /\ ctl' = [ctl EXCEPT ![t].op = op, ![t].pc = "get_state"]
    /\ UNCHANGED <<ping_finder_state, engine_started, stop_event, thread, monitors,
                   engine_starts, coFrame>>

\* start(): if get_ping_finder_state() == PingFinderState.IDLE.value
pf_start_get_state(t) ==
    /\ ctl[t].op = "start" /\ ctl[t].pc = "get_state"
    /\ IF ping_finder_state = "Idle" THEN Goto(t, "set_initializing") ELSE Return(t)
    /\ UNCHANGED <<ping_finder_state, engine_started, stop_event, thread, monitors,
                   engine_starts, coFrame>>

\* start(): set_ping_finder_state(INITIALIZING)
pf_start_set_initializing(t) ==
    /\ ctl[t].op = "start" /\ ctl[t].pc = "set_initializing"
    /\ ping_finder_state' = "Initializing"
    /\ Goto(t, "clear")
    /\ UNCHANGED <<engine_started, stop_event, thread, monitors, engine_starts, coFrame>>

\* start(): self._stop_event.clear()
pf_start_clear(t) ==
    /\ ctl[t].op = "start" /\ ctl[t].pc = "clear"
    /\ stop_event' = FALSE
    /\ Goto(t, "engine_start")
    /\ UNCHANGED <<ping_finder_state, engine_started, thread, monitors, engine_starts,
                   coFrame>>

\* start(): self._ping_finder.start(); engine_ok: the engine's start does not raise
pf_start_engine(t, engine_ok) ==
    /\ ctl[t].op = "start" /\ ctl[t].pc = "engine_start"
    /\ engine_starts' = engine_starts + 1
    /\ IF engine_ok
       THEN engine_started' = TRUE /\ Goto(t, "create_thread")
       ELSE UNCHANGED engine_started /\ Goto(t, "set_error")
    /\ UNCHANGED <<ping_finder_state, stop_event, thread, monitors, coFrame>>

\* start(): self._thread = threading.Thread(target=self._run)
pf_start_create_thread(t) ==
    /\ ctl[t].op = "start" /\ ctl[t].pc = "create_thread"
    /\ \E m \in MonitorIds :
          /\ monitors[m] = "unborn"
          /\ monitors' = [monitors EXCEPT ![m] = "created"]
          /\ thread' = Some(m)
    /\ Goto(t, "thread_start")
    /\ UNCHANGED <<ping_finder_state, engine_started, stop_event, engine_starts, coFrame>>

\* start(): self._thread.start(); a thread object that has been started raises
\* RuntimeError
pf_start_thread_start(t) ==
    /\ ctl[t].op = "start" /\ ctl[t].pc = "thread_start"
    /\ \E m \in thread :
          IF monitors[m] = "created"
          THEN monitors' = [monitors EXCEPT ![m] = "loop"] /\ Goto(t, "set_running")
          ELSE UNCHANGED monitors /\ Goto(t, "set_error")
    /\ UNCHANGED <<ping_finder_state, engine_started, stop_event, thread, engine_starts,
                   coFrame>>

\* start(): set_ping_finder_state(RUNNING)
pf_start_set_running(t) ==
    /\ ctl[t].op = "start" /\ ctl[t].pc = "set_running"
    /\ ping_finder_state' = "Running"
    /\ Return(t)
    /\ UNCHANGED <<engine_started, stop_event, thread, monitors, engine_starts, coFrame>>

\* start(): except Exception: set_ping_finder_state(ERROR)
pf_start_set_error(t) ==
    /\ ctl[t].op = "start" /\ ctl[t].pc = "set_error"
    /\ ping_finder_state' = "Error"
    /\ Return(t)
    /\ UNCHANGED <<engine_started, stop_event, thread, monitors, engine_starts, coFrame>>

\* stop(): current_state = get_ping_finder_state(); if current_state != IDLE
pf_stop_get_state(t) ==
    /\ ctl[t].op = "stop" /\ ctl[t].pc = "get_state"
    /\ IF ping_finder_state # "Idle" THEN Goto(t, "set_event") ELSE Return(t)
    /\ UNCHANGED <<ping_finder_state, engine_started, stop_event, thread, monitors,
                   engine_starts, coFrame>>

\* stop(): self._stop_event.set()
pf_stop_set_event(t) ==
    /\ ctl[t].op = "stop" /\ ctl[t].pc = "set_event"
    /\ stop_event' = TRUE
    /\ Goto(t, "engine_stop")
    /\ UNCHANGED <<ping_finder_state, engine_started, thread, monitors, engine_starts,
                   coFrame>>

\* stop(): self._ping_finder.stop()
pf_stop_engine(t) ==
    /\ ctl[t].op = "stop" /\ ctl[t].pc = "engine_stop"
    /\ engine_started' = FALSE
    /\ Goto(t, "read_thread")
    /\ UNCHANGED <<ping_finder_state, stop_event, thread, monitors, engine_starts, coFrame>>

\* stop(): if self._thread: the thread object join() is then called on
pf_stop_read_thread(t) ==
    /\ ctl[t].op = "stop" /\ ctl[t].pc = "read_thread"
    /\ ctl' = [ctl EXCEPT ![t].joins = thread,
                          ![t].pc = IF thread = None THEN "set_idle" ELSE "join"]
    /\ UNCHANGED <<ping_finder_state, engine_started, stop_event, thread, monitors,
                   engine_starts, coFrame>>

\* stop(): self._thread.join() returns when the thread has ended; on a thread that
\* was not started yet it raises RuntimeError, which leaves stop()
pf_stop_join(t) ==
    /\ ctl[t].op = "stop" /\ ctl[t].pc = "join"
    /\ \E m \in ctl[t].joins :
          \/ /\ monitors[m] = "ended"
             /\ Goto(t, "set_idle")
          \/ /\ monitors[m] = "created"
             /\ ctl' = [ctl EXCEPT ![t].pc = "returned", ![t].raised = TRUE]
    /\ UNCHANGED <<ping_finder_state, engine_started, stop_event, thread, monitors,
                   engine_starts, coFrame>>

\* stop(): set_ping_finder_state(IDLE)
pf_stop_set_idle(t) ==
    /\ ctl[t].op = "stop" /\ ctl[t].pc = "set_idle"
    /\ ping_finder_state' = "Idle"
    /\ Return(t)
    /\ UNCHANGED <<engine_started, stop_event, thread, monitors, engine_starts, coFrame>>

\* _run: while not self._stop_event.is_set(): the loop ends when the event is set
pf_run_loop(m) ==
    /\ monitors[m] = "loop"
    /\ stop_event
    /\ monitors' = [monitors EXCEPT ![m] = "finally_get"]
    /\ UNCHANGED <<ping_finder_state, engine_started, stop_event, thread, ctl,
                   engine_starts, coFrame>>

\* _run, finally: if get_ping_finder_state() != PingFinderState.ERROR.value
pf_run_finally_get(m) ==
    /\ monitors[m] = "finally_get"
    /\ monitors' = [monitors EXCEPT
                       ![m] = IF ping_finder_state # "Error" THEN "finally_set" ELSE "ended"]
    /\ UNCHANGED <<ping_finder_state, engine_started, stop_event, thread, ctl,
                   engine_starts, coFrame>>

\* _run, finally: set_ping_finder_state(IDLE); the thread ends
pf_run_finally_set(m) ==
    /\ monitors[m] = "finally_set"
    /\ ping_finder_state' = "Idle"
    /\ monitors' = [monitors EXCEPT ![m] = "ended"]
    /\ UNCHANGED <<engine_started, stop_event, thread, ctl, engine_starts, coFrame>>

NextControl ==
    \/ \E t \in ControlThreads, op \in {"start", "stop"} : pf_call(t, op)
    \/ \E t \in ControlThreads : pf_start_get_state(t)
    \/ \E t \in ControlThreads : pf_start_set_initializing(t)
    \/ \E t \in ControlThreads : pf_start_clear(t)
    \/ \E t \in ControlThreads, engine_ok \in BOOLEAN : pf_start_engine(t, engine_ok)
    \/ \E t \in ControlThreads : pf_start_create_thread(t)
    \/ \E t \in ControlThreads : pf_start_thread_start(t)
    \/ \E t \in ControlThreads : pf_start_set_running(t)
    \/ \E t \in ControlThreads : pf_start_set_error(t)
    \/ \E t \in ControlThreads : pf_stop_get_state(t)
    \/ \E t \in ControlThreads : pf_stop_set_event(t)
    \/ \E t \in ControlThreads : pf_stop_engine(t)
    \/ \E t \in ControlThreads : pf_stop_read_thread(t)
    \/ \E t \in ControlThreads : pf_stop_join(t)
    \/ \E t \in ControlThreads : pf_stop_set_idle(t)
    \/ \E m \in MonitorIds : pf_run_loop(m)
    \/ \E m \in MonitorIds : pf_run_finally_get(m)
    \/ \E m \in MonitorIds : pf_run_finally_set(m)

SpecControl == InitModule /\ [][NextControl]_vars

\* the monitoring threads that have been started and have not ended
LiveMonitors == {m \in MonitorIds : monitors[m] \in {"loop", "finally_get", "finally_set"}}

\* the monitoring threads start() has started
Spawned == {m \in MonitorIds : monitors[m] \notin {"unborn", "created"}}

\* both control threads called start()
BothStart == \A t \in ControlThreads : ctl[t].op = "start"

\* C37: when two threads call start() concurrently on an Idle coordinator, the
\* engine's start is called at most once, at most one monitoring thread is started,
\* and the coordinator's thread reference designates every live monitoring loop
C37_ConcurrentStartsStartOnce ==
    BothStart =>
        /\ engine_starts <= 1
        /\ Cardinality(Spawned) <= 1
        /\ LiveMonitors \subseteq thread

\* no control call is in progress and one thread called start(), the other stop()
StartAndStopCompleted ==
    /\ \A t \in ControlThreads : ctl[t].pc = "returned"
    /\ {ctl[t].op : t \in ControlThreads} = {"start", "stop"}
    \* and no monitoring thread is on its way out of _run
    /\ \A m \in MonitorIds :
          /\ monitors[m] \notin {"finally_get", "finally_set"}
          /\ monitors[m] = "loop" => ~stop_event

\* C38: once a start() and a stop() on different threads have both completed, the
\* state Running implies a started engine and a live monitoring loop, and the state
\* Idle implies a stopped engine and no live monitoring loop
C38_StateAgreesAfterStartAndStop ==
    StartAndStopCompleted =>
        /\ ping_finder_state = "Running" => (engine_started /\ LiveMonitors # {})
        /\ ping_finder_state = "Idle" => (~engine_started /\ LiveMonitors = {})

-----------------------------------------------------------------------------
(* The failure threshold after a restart (checked under SpecGPS) *)

\* C39: after a restart from the Error state (max_errors failures were counted
\* before run() was entered again) the failures of the earlier run do not count:
\* the first read of the new run, when it fails, is one failure of max_errors and
\* does not set the GPS state to Error
C39_RestartCountsAfresh ==
    [][(/\ read_none
        /\ last_read = "no read"
        /\ error_count >= max_errors
        /\ gps_state # "Error") => gps_state' # "Error"]_vars



-----------------------------------------------------------------------------
(* The module reference and the ping-finder state (checked under SpecOnline) *)

\* C40: between the executions of pending actions the manager holds no
\* ping-finder module exactly when the ping-finder state is Uncreated, after any
\* acknowledged sync, config, start and stop actions - also after a config
\* action whose module construction or reconfigure raised
C40_ModuleIffCreated ==
    (ping_finder_module = None) <=> (ping_finder_state = "Uncreated")

====
